---- MODULE Spec2Model ----
(***************************************************************************)
(* Model of the hotsos event-tally aggregation (AgentExceptionCheckResults *)
(* and AgentExceptionChecks in                                             *)
(* hotsos/plugin_extensions/openstack/agent/exceptions.py), of its use of  *)
(* the shared MPCache, and of the scenario decision engine that consumes   *)
(* the tallies.                                                            *)
(*                                                                         *)
(* Python strings are modelled as sequences of code points, so that        *)
(* str.strip, the regular expression search and the lexicographic sort are *)
(* computed rather than assumed.  Python dicts are modelled as sequences   *)
(* of [k, v] entries in insertion order, so that enumeration order is part *)
(* of the model.                                                           *)
(***************************************************************************)
EXTENDS Integers, Sequences, FiniteSets, TLC

VARIABLES
    \* ---- _tally_results applied to one collection of match records ----
    results,                  \* the records handed to _tally_results, in arrival order
    event_tally_granularity,  \* HotSOSConfig.event_tally_granularity
    exceptions,               \* what _tally_results returned (or that it raised)
    tpc,                      \* "input" while records arrive, "done" once tallied
    \* ---- AgentExceptionChecks.execute()/run() against the shared cache ----
    snapshot,                 \* the tagged match records of the data snapshot
    installed,                \* names of the installed projects
    global_tmp_dir,           \* HotSOSConfig.global_tmp_dir: scratch location of the run
    store,                    \* per cache location: value under key 'agent_exceptions'
    pc,                       \* per check process: position inside execute()
    searchdefs,               \* per process: the search definitions added to self.searchobj
    search_results,           \* per process: what searchobj.run() returned
    ret,                      \* per process: what the last finished run() returned
    calls,                    \* per process: number of execute() calls started
    loads,                    \* per process: number of load() calls
    searches,                 \* per process: number of searchobj.run() calls
    aggregations,             \* per process: number of times run() aggregated
    sets,                     \* number of cache.set('agent_exceptions', ..) calls
    hist,                     \* per process: what the current call saw when it started
    \* ---- scenario runner ----
    facts,                    \* value of each atomic predicate's fact
    sidx,                     \* index of the next scenario the runner evaluates
    issues,                   \* ids of the scenarios whose issue reached the sink
    requeries,                \* number of times facts were queried again
    dpkg_l,                   \* installed version of neutron-common, <<>> when not installed
    run_error,                \* an exception of a predicate reached the runner's caller
    \* ---- NeutronAgentEventChecks.process_results ----
    durations,                \* duration (1/100 s) of the sample of each entity id
    event_samples,            \* per event: the samples LogEventStats collected, in arrival order
    agent_info,               \* what process_results returned
    ppc,                      \* "input" while samples arrive, "done" once processed
    \* ---- OctaviaAgentEventChecks.lb_failover_auto ----
    failover_results,         \* event['results']: the failover records, in arrival order
    failover_info,            \* what lb_failover_auto returned
    fpc,                      \* "input" while records arrive, "done" once the callback ran
    \* ---- AgentChecks.__call__ ----
    openstack_installed,      \* self.openstack_installed
    log_matches,              \* the search terms that match a line of the logs
    registered,               \* the checks whose terms the searcher holds, in order
    searcher_runs,            \* number of s.search() calls
    call_results,            \* what s.search() returned
    processed,                \* the process_results calls: the check and the results it got
    output,                   \* the local dict output
    agent_output,             \* self._output
    cpc                       \* position inside __call__

vars == <<results, event_tally_granularity, exceptions, tpc,
          snapshot, installed, global_tmp_dir, store, pc, searchdefs,
          search_results, ret,
          calls, loads,
          searches, aggregations, sets, hist,
          facts, sidx, issues, requeries, dpkg_l, run_error,
          durations, event_samples, agent_info, ppc,
          failover_results, failover_info, fpc,
          openstack_installed, log_matches, registered, searcher_runs,
          call_results, processed, output, agent_output, cpc>>

tallyVars == <<results, event_tally_granularity, exceptions, tpc>>
cacheVars == <<snapshot, installed, global_tmp_dir, store, pc, searchdefs,
               search_results,
               ret, calls,
               loads, searches, aggregations, sets, hist>>
scenarioVars == <<facts, sidx, issues, requeries, dpkg_l, run_error>>
eventVars == <<durations, event_samples, agent_info, ppc>>
failoverVars == <<failover_results, failover_info, fpc>>
callVars == <<openstack_installed, log_matches, registered, searcher_runs,
              call_results, processed, output, agent_output, cpc>>

-----------------------------------------------------------------------------
(* Bounds of the model. *)

\* longest collection of records handed to _tally_results
MaxRecords == 3
\* most records in the snapshot searched by execute()
MaxSnapshot == 2
\* most execute() calls one check process makes in a run
MaxCalls == 2
\* most times the facts are queried again during a scenario run
MaxRequeries == 1
\* most samples of the event whose samples arrive one by one
MaxSamples == 6
\* most failover records handed to lb_failover_auto
MaxFailovers == 3

-----------------------------------------------------------------------------
(* Python strings as sequences of code points. *)

\* the character removed by exc_name.strip("'")
QUOTE == 39
\* the ':' the time expression requires between hours and minutes
COLON == 58
\* the '_' joining date and time in a bucket key
UNDERSCORE == 95

\* the digit zero of every script that has decimal digits (Unicode category
\* Nd); the other nine digits of the script follow it
DecimalZeros ==
    { 48, 1632, 1776, 1984, 2406, 2534, 2662, 2790,
      2918, 3046, 3174, 3302, 3430, 3558, 3664, 3792,
      3872, 4160, 4240, 6112, 6160, 6470, 6608, 6784,
      6800, 6992, 7088, 7232, 7248, 42528, 43216, 43264,
      43472, 43504, 43600, 44016, 65296, 66720, 68912, 69734,
      69872, 69942, 70096, 70384, 70736, 70864, 71248, 71360,
      71472, 71904, 72016, 72784, 73040, 73120, 92768, 92864,
      93008, 120782, 120792, 120802, 120812, 120822, 123200, 123632,
      125264, 130032 }

\* \d of a str pattern: a decimal digit of any script, not of ASCII only
IsDigit(c) ==
    \/ c >= 48 /\ c <= 57
    \/ c >= 1632 /\ \E z \in DecimalZeros : c >= z /\ c <= z + 9

\* Python's str < str: lexicographic on code points, a proper prefix is smaller.
RECURSIVE StrLess(_, _)
StrLess(a, b) ==
    IF b = <<>> THEN FALSE
    ELSE IF a = <<>> THEN TRUE
    ELSE IF Head(a) # Head(b) THEN Head(a) < Head(b)
    ELSE StrLess(Tail(a), Tail(b))

\* Strip removing one quote at most from each end
Strip_OneQuote(s) ==
    LET l == IF s # <<>> /\ Head(s) = QUOTE THEN Tail(s) ELSE s
    IN  IF l # <<>> /\ l[Len(l)] = QUOTE THEN SubSeq(l, 1, Len(l) - 1) ELSE l

RECURSIVE LStrip(_)
LStrip(s) == IF s # <<>> /\ Head(s) = QUOTE THEN LStrip(Tail(s)) ELSE s

RECURSIVE RStrip(_)
RStrip(s) ==
    IF s # <<>> /\ s[Len(s)] = QUOTE THEN RStrip(SubSeq(s, 1, Len(s) - 1)) ELSE s

\* str.strip("'"): every leading and trailing quote removed, the rest kept.
Strip(s) == RStrip(LStrip(s))

\* length of the maximal run of digits of s that starts at position i
RECURSIVE DigitRun(_, _)
DigitRun(s, i) ==
    IF i <= Len(s) /\ IsDigit(s[i]) THEN 1 + DigitRun(s, i + 1) ELSE 0

\* re.compile(r'(\d+:\d+).+') tried at start position i: group 1, or <<>> when
\* the expression does not match there.  Both \d+ are greedy; the trailing .+
\* needs one more character, which the second \d+ gives back when the string
\* ends with its digits.  (The time group is \S+, so it holds no newline.)
MatchAt(s, i) ==
    LET d1 == DigitRun(s, i)
        c  == i + d1
        d2 == IF d1 > 0 /\ c <= Len(s) /\ s[c] = COLON
              THEN DigitRun(s, c + 1) ELSE 0
    IN  IF d2 = 0 THEN <<>>
        ELSE IF c + d2 < Len(s) THEN SubSeq(s, i, c + d2)
        ELSE IF d2 >= 2 THEN SubSeq(s, i, c + d2 - 1)
        ELSE <<>>

\* .search(): the match at the leftmost start position; <<>> stands for None.
RECURSIVE SearchFrom(_, _)
SearchFrom(s, i) ==
    IF i > Len(s) THEN <<>>
    ELSE IF MatchAt(s, i) # <<>> THEN MatchAt(s, i)
    ELSE SearchFrom(s, i + 1)

TimeSearch(s) == SearchFrom(s, 1)

-----------------------------------------------------------------------------
(* Python dicts as sequences of entries in insertion order. *)

Keys(d) == [i \in 1..Len(d) |-> d[i].k]
KeySet(d) == {d[i].k : i \in 1..Len(d)}
Has(d, key) == key \in KeySet(d)
Get(d, key) == d[CHOOSE i \in 1..Len(d) : d[i].k = key].v

\* d[key] = val: an existing key keeps its position, a new key goes last.
Put(d, key, val) ==
    IF Has(d, key)
    THEN [i \in 1..Len(d) |-> IF d[i].k = key THEN [k |-> key, v |-> val] ELSE d[i]]
    ELSE Append(d, [k |-> key, v |-> val])

\* Python's None: a value of its own, equal to no string and to no dict (a
\* function that is no sequence, so that it can be compared with either)
None == [i \in {0} |-> 0]

\* Python's dict == dict: the same keys with equal values, in any order at
\* every level.  The values of a dict nested `depth` deep are dicts down to
\* level depth, where they are compared as they are (depth 1 is a flat dict).
RECURSIVE DictEq(_, _, _)
DictEq(a, b, depth) ==
    IF depth = 0 THEN a = b
    ELSE /\ KeySet(a) = KeySet(b)
         /\ \A key \in KeySet(a) : DictEq(Get(a, key), Get(b, key), depth - 1)

\* InsertByKey with the comparison lost: the entry goes first
InsertByKey_NoCompare(sorted, e) == <<e>> \o sorted

\* an entry put into a list of entries that is ascending by key, after the
\* entries whose key is not greater (sorted() is stable)
RECURSIVE InsertByKey(_, _)
InsertByKey(sorted, e) ==
    IF sorted = <<>> THEN <<e>>
    ELSE IF StrLess(e.k, Head(sorted).k) THEN <<e>> \o sorted
    ELSE <<Head(sorted)>> \o InsertByKey(Tail(sorted), e)

\* sorted(d.items(), key=lambda x: x[0]) put back into a dict
RECURSIVE SortedByKey(_)
SortedByKey(d) ==
    IF d = <<>> THEN <<>>
    ELSE InsertByKey(SortedByKey(SubSeq(d, 1, Len(d) - 1)), d[Len(d)])

-----------------------------------------------------------------------------
(* AgentExceptionCheckResults._tally_results *)

\* the three shapes of what a call of _tally_results produces
ReturnNone == [kind |-> "none", table |-> <<>>]
Raised == [kind |-> "raised", table |-> <<>>]
Table(t) == [kind |-> "table", table |-> t]
NotCalled == [kind |-> "notcalled", table |-> <<>>]

\* exc_name = result.get(3).strip("'")
ExcName(result) == Strip(result.name)

\* BucketKey reading the time group where the date group is meant
BucketKey_WrongGroup(result, granularity) ==
    IF granularity = "time"
    THEN result.time \o <<UNDERSCORE>> \o TimeSearch(result.time)
    ELSE result.time

\* BucketKey with the date left out of the key of a time bucket
BucketKey_TimeOnly(result, granularity) ==
    IF granularity = "time" THEN TimeSearch(result.time) ELSE result.date

\* the key of the bucket a record is counted in: the date, or the date and the
\* hours:minutes found by the time expression
BucketKey(result, granularity) ==
    IF granularity = "time"
    THEN result.date \o <<UNDERSCORE>> \o TimeSearch(result.time)
    ELSE result.date

\* TimeRaises with the failed search passed over in silence
TimeRaises_Never(result, granularity) == FALSE

\* re.search() returned None, and None[1] raises TypeError
TimeRaises(result, granularity) ==
    granularity = "time" /\ TimeSearch(result.time) = <<>>

\* TallyOne storing 1 where the count is to be incremented
TallyOne_NoIncrement(exc, result, granularity) ==
    LET exc_name == ExcName(result)
        exc1     == IF ~Has(exc, exc_name) THEN Put(exc, exc_name, <<>>) ELSE exc
        key      == BucketKey(result, granularity)
    IN  Put(exc1, exc_name, Put(Get(exc1, exc_name), key, 1))

\* one pass of the loop over the results
TallyOne(exc, result, granularity) ==
    LET exc_name == ExcName(result)
        exc1     == IF ~Has(exc, exc_name) THEN Put(exc, exc_name, <<>>) ELSE exc
        key      == BucketKey(result, granularity)
        buckets  == Get(exc1, exc_name)
        buckets1 == IF ~Has(buckets, key) THEN Put(buckets, key, 0) ELSE buckets
    IN  Put(exc1, exc_name, Put(buckets1, key, Get(buckets1, key) + 1))

\* the loop over the first n results
RECURSIVE TallyLoop(_, _, _)
TallyLoop(rs, n, granularity) ==
    IF n = 0 THEN <<>>
    ELSE TallyOne(TallyLoop(rs, n - 1, granularity), rs[n], granularity)

\* SortBuckets with the sorted copy never assigned back
SortBuckets_Unsorted(exc) == exc

\* exceptions[exc_type] = exceptions_sorted, for every exc_type
SortBuckets(exc) ==
    [i \in 1..Len(exc) |-> [k |-> exc[i].k, v |-> SortedByKey(exc[i].v)]]

\* tally_results returning the empty table where it is to return nothing
tally_results_EmptyTable(rs, granularity) ==
    IF \E i \in 1..Len(rs) : TimeRaises(rs[i], granularity) THEN Raised
    ELSE Table(SortBuckets(TallyLoop(rs, Len(rs), granularity)))

\* _tally_results(results), with self._event_tally_granularity
tally_results(rs, granularity) ==
    IF \E i \in 1..Len(rs) : TimeRaises(rs[i], granularity) THEN Raised
    ELSE LET exc == TallyLoop(rs, Len(rs), granularity)
         IN  IF exc = <<>> THEN ReturnNone ELSE Table(SortBuckets(exc))

-----------------------------------------------------------------------------
(* The match records _tally_results is exercised on. *)

\* group 3 of the search expression: "A", "''A'" and "'A'B"
NamePool == { <<65>>, <<39, 39, 65, 39>>, <<39, 65, 39, 66>> }
\* group 1: "2022-02-04", "2022-02-09"
D04 == <<50, 48, 50, 50, 45, 48, 50, 45, 48, 52>>
D09 == <<50, 48, 50, 50, 45, 48, 50, 45, 48, 57>>
DatePool == { D04, D09 }
\* group 2: "10:07:33.5", "10:08:01.2", "bad", which has no hours:minutes,
\* and "10:07", which has no seconds
T1007 == <<49, 48, 58, 48, 55, 58, 51, 51, 46, 53>>
T1008 == <<49, 48, 58, 48, 56, 58, 48, 49, 46, 50>>
TBad == <<98, 97, 100>>
TShort == <<49, 48, 58, 48, 55>>
\* the timestamps (groups 1 and 2) of the log lines
StampPool == { <<D04, T1007>>, <<D04, T1008>>, <<D09, T1007>>, <<D04, TBad>> }

RecordPool ==
    { [date |-> st[1], time |-> st[2], name |-> n] : st \in StampPool, n \in NamePool }
        \cup { [date |-> D04, time |-> TShort, name |-> <<65>>] }

InitTally ==
    /\ results = <<>>
    /\ event_tally_granularity \in {"date", "time"}
    /\ exceptions = NotCalled
    /\ tpc = "input"

\* one more match record arrives from the search
Arrive ==
    /\ tpc = "input"
    /\ Len(results) < MaxRecords
    /\ \E r \in RecordPool : results' = Append(results, r)
    /\ UNCHANGED <<event_tally_granularity, exceptions, tpc>>

\* self.data[name] = self._tally_results(_results)
TallyResults ==
    /\ tpc = "input"
    /\ exceptions' = tally_results(results, event_tally_granularity)
    /\ tpc' = "done"
    /\ UNCHANGED <<results, event_tally_granularity>>

-----------------------------------------------------------------------------
(* AgentExceptionChecks: the projects, their agents and the log levels. *)

\* self.ost_projects.all, in its iteration order
Projects == <<"nova", "neutron">>
\* project.services of each project
Services(name) ==
    IF name = "nova" THEN <<"nova-compute">> ELSE <<"neutron-dhcp-agent">>
\* for log_level in ['warning', 'error']
LogLevels == <<"warning", "error">>

\* the check processes that share the cache of one run
Procs == {"p1", "p2"}

\* tag + '.' + log_level, with tag = "{}.{}".format(name, agent)
Tag(name, agent, log_level) == <<name, agent, log_level>>

\* the names self._agent_errors catches for a project ("'B" for neutron);
\* every other name of the snapshot is one of project.exceptions when logged
\* at the error level, and one of self._agent_warnings at the warning level
AgentErrorNames(name) == IF name = "neutron" THEN { <<39, 66>> } ELSE {}
\* self._agent_warnings.get(project.name, []) is not empty
HasWarnExprs(name) == name \in {"nova", "neutron"}
\* self._agent_errors.get(project.name, []) is not empty
HasErrExprs(name) == name \in {"neutron", "keystone"}

\* SearchDef(expr, tag=..) added for logs_path: the kind of expr, the tag, the path
SearchDefOf(kind, tag, logs_path) == [kind |-> kind, tag |-> tag, path |-> logs_path]

\* AddAgentSearches tagging the extra error expressions as warnings
AddAgentSearches_ErrorsAsWarnings(name, agent) ==
    <<SearchDefOf("exceptions", Tag(name, agent, "error"), <<name, agent>>)>>
    \o (IF HasWarnExprs(name)
        THEN <<SearchDefOf("warnings", Tag(name, agent, "warning"), <<name, agent>>)>>
        ELSE <<>>)
    \o (IF HasErrExprs(name)
        THEN <<SearchDefOf("errors", Tag(name, agent, "warning"), <<name, agent>>)>>
        ELSE <<>>)

\* _add_agent_searches(project, agent_name, logs_path, expr_template): the
\* definitions it adds, in order (project.exceptions is not empty)
AddAgentSearches(name, agent) ==
    <<SearchDefOf("exceptions", Tag(name, agent, "error"), <<name, agent>>)>>
    \o (IF HasWarnExprs(name)
        THEN <<SearchDefOf("warnings", Tag(name, agent, "warning"), <<name, agent>>)>>
        ELSE <<>>)
    \o (IF HasErrExprs(name)
        THEN <<SearchDefOf("errors", Tag(name, agent, "error"), <<name, agent>>)>>
        ELSE <<>>)

\* the definitions load() adds for the first n agents of a project
RECURSIVE ProjectDefs(_, _)
ProjectDefs(name, n) ==
    IF n = 0 THEN <<>>
    ELSE ProjectDefs(name, n - 1) \o AddAgentSearches(name, Services(name)[n])

\* load(): the definitions added for the first n projects, the projects that
\* are not installed being skipped
RECURSIVE LoadDefs(_, _)
LoadDefs(inst, n) ==
    IF n = 0 THEN <<>>
    ELSE LoadDefs(inst, n - 1)
            \o (IF Projects[n] \in inst
                THEN ProjectDefs(Projects[n], Len(Services(Projects[n])))
                ELSE <<>>)

\* a line of the snapshot is matched by a definition: it is a line of that
\* agent at that level, and its name is one the definition's expression names
MatchedBy(line, def) ==
    /\ line.tag[1] = def.path[1] /\ line.tag[2] = def.path[2]
    /\ CASE def.kind = "warnings" -> line.tag[3] = "warning"
         [] def.kind = "errors" ->
               line.tag[3] = "error" /\ line.name \in AgentErrorNames(line.tag[1])
         [] OTHER ->
               line.tag[3] = "error" /\ line.name \notin AgentErrorNames(line.tag[1])

\* the matches of one definition, each carrying the tag of the definition
RECURSIVE MatchesOf(_, _)
MatchesOf(def, sr) ==
    IF sr = <<>> THEN <<>>
    ELSE IF MatchedBy(Head(sr), def)
         THEN <<[Head(sr) EXCEPT !.tag = def.tag]>> \o MatchesOf(def, Tail(sr))
    ELSE MatchesOf(def, Tail(sr))

\* self.searchobj.run(): the matches of every definition that was added, a
\* definition added twice being searched twice
RECURSIVE SearchRun(_, _)
SearchRun(defs, sr) ==
    IF defs = <<>> THEN <<>>
    ELSE MatchesOf(Head(defs), sr) \o SearchRun(Tail(defs), sr)

\* FindByTag with the log level left out of the comparison
RECURSIVE FindByTag_IgnoresLevel(_, _)
FindByTag_IgnoresLevel(sr, tag) ==
    IF sr = <<>> THEN <<>>
    ELSE IF Head(sr).tag[1] = tag[1] /\ Head(sr).tag[2] = tag[2]
         THEN <<Head(sr)>> \o FindByTag_IgnoresLevel(Tail(sr), tag)
    ELSE FindByTag_IgnoresLevel(Tail(sr), tag)

RECURSIVE FindByTag(_, _)
\* search_results.find_by_tag(tag): the records of that tag, in their order
FindByTag(sr, tag) ==
    IF sr = <<>> THEN <<>>
    ELSE IF Head(sr).tag = tag THEN <<Head(sr)>> \o FindByTag(Tail(sr), tag)
    ELSE FindByTag(Tail(sr), tag)

\* AgentResults keeping an agent that has no result
RECURSIVE AgentResults_KeepsEmpty(_, _, _, _)
AgentResults_KeepsEmpty(sr, name, log_level, n) ==
    IF n = 0 THEN <<>>
    ELSE Put(AgentResults_KeepsEmpty(sr, name, log_level, n - 1),
             Services(name)[n],
             FindByTag(sr, Tag(name, Services(name)[n], log_level)))

\* agent_results of one project and log level: the first n agents that have
\* results, each with its records
RECURSIVE AgentResults(_, _, _, _)
AgentResults(sr, name, log_level, n) ==
    IF n = 0 THEN <<>>
    ELSE LET agent == Services(name)[n]
             found == FindByTag(sr, Tag(name, agent, log_level))
             before == AgentResults(sr, name, log_level, n - 1)
         IN  IF found # <<>> THEN Put(before, agent, found) ELSE before

\* the TypeError of _tally_results on its way out of __init__ and run()
RaisedTypeError == [i \in {0} |-> 1]

\* what a call of _tally_results leaves in data[name]: the table it returned,
\* or None
DataOf(tallied) == IF tallied.kind = "none" THEN None ELSE tallied.table

\* AgentExceptionCheckResults.__init__: data[name] = _tally_results(_results)
\* for every agent; an exception of _tally_results leaves __init__
CheckResults(agent_results, granularity) ==
    IF \E i \in 1..Len(agent_results) :
           tally_results(agent_results[i].v, granularity) = Raised
    THEN RaisedTypeError
    ELSE [i \in 1..Len(agent_results) |->
             [k |-> agent_results[i].k,
              v |-> DataOf(tally_results(agent_results[i].v, granularity))]]

\* the (project, log level) pairs in the order the two loops of run() visit them
LoopSteps ==
    [i \in 1..(Len(Projects) * Len(LogLevels)) |->
        [name  |-> Projects[((i - 1) \div Len(LogLevels)) + 1],
         level |-> LogLevels[((i - 1) % Len(LogLevels)) + 1]]]

\* agent_exceptions after the first n passes of the loops of run()
RECURSIVE AggregateLoop(_, _, _, _)
AggregateLoop(sr, inst, granularity, n) ==
    IF n = 0 THEN <<>>
    ELSE LET before == AggregateLoop(sr, inst, granularity, n - 1)
             name   == LoopSteps[n].name
             level  == LoopSteps[n].level
             agent_results ==
                 AgentResults(sr, name, level, Len(Services(name)))
             _results == CheckResults(agent_results, granularity)
         IN  IF before = RaisedTypeError THEN RaisedTypeError
             ELSE IF name \notin inst \/ agent_results = <<>> THEN before
             ELSE IF _results = RaisedTypeError THEN RaisedTypeError
             ELSE LET ae == IF ~Has(before, level)
                            THEN Put(before, level, <<>>) ELSE before
                  IN  Put(ae, level, Put(Get(ae, level), name, _results))

\* what run() computes from the search results when the cache gave nothing,
\* or the exception that ends it
Aggregate(sr, inst, granularity) ==
    AggregateLoop(sr, inst, granularity, Len(LoopSteps))

-----------------------------------------------------------------------------
(* The cache and the check processes. *)

\* MPCache.get: None when nothing was set
Absent == [present |-> FALSE, value |-> <<>>]
Stored(v) == [present |-> TRUE, value |-> v]

\* the scratch locations of successive analysis runs, oldest first
ScratchDirs == <<"run1", "run2">>
DirSet == {ScratchDirs[i] : i \in 1..Len(ScratchDirs)}
DirIndex(dir) == CHOOSE i \in 1..Len(ScratchDirs) : ScratchDirs[i] = dir

\* CachePath ignoring the scratch location
CachePath_Fixed(dir) == <<"", "openstack_extensions", "agent_exception_checks">>

\* MPCache('agent_exception_checks', 'openstack_extensions', global_tmp_dir):
\* where the cache of a run keeps its entries
CachePath(dir) == <<dir, "openstack_extensions", "agent_exception_checks">>
CachePaths == {CachePath(d) : d \in DirSet}

\* self.cache: the entry 'agent_exceptions' at the location of the current run
cache == store[CachePath(global_tmp_dir)]

\* self.cache.get('agent_exceptions') or {}
CacheGetOrEmpty(c) == IF c.present THEN c.value ELSE <<>>

\* IsHit never taking the cached value
IsHit_Never(agent_exceptions) == FALSE

\* if agent_exceptions: return agent_exceptions
IsHit(agent_exceptions) == agent_exceptions # <<>>

\* SummaryOf returning the first level of the result, whatever was asked
SummaryOf_FirstLevel(exc_info, level) ==
    IF exc_info # <<>> THEN [present |-> TRUE, value |-> exc_info[1].v]
    ELSE [present |-> FALSE, value |-> <<>>]

\* __summary_agent_warnings / __summary_agent_exceptions on what execute()
\* returned: the projects of that level, each with the tallies of its
\* agents; nothing when the level is not in the result
SummaryOf(exc_info, level) ==
    IF exc_info # <<>> /\ Has(exc_info, level)
    THEN [present |-> TRUE, value |-> Get(exc_info, level)]
    ELSE [present |-> FALSE, value |-> <<>>]

NoReturn == [has |-> FALSE, value |-> <<>>]
\* the call ended with an exception
Escaped(e) == [has |-> FALSE, value |-> e]
Returned(v) == [has |-> TRUE, value |-> v]

\* what a call of execute() found when it started: whether a value was stored
\* in the cache, that value, whether it counted as a hit, and the counters
NoCall == [called |-> FALSE, stored |-> FALSE, seen |-> <<>>, hit |-> FALSE,
           loads0 |-> 0, searches0 |-> 0, aggs0 |-> 0]

RECURSIVE Reverse(_)
Reverse(sq) == IF sq = <<>> THEN <<>> ELSE Append(Reverse(Tail(sq)), Head(sq))

\* the log lines a snapshot can hold that some search expression matches, each
\* with the tag of that expression
SnapshotTags ==
    { Tag("nova", "nova-compute", "warning"),
      Tag("neutron", "neutron-dhcp-agent", "warning"),
      Tag("neutron", "neutron-dhcp-agent", "error") }
\* (event name, date) of those lines: "A" and "'B" on 2022-02-04, "A" on 2022-02-09
SnapshotEvents == { <<(<<65>>), D04>>, <<(<<39, 66>>), D04>>, <<(<<65>>), D09>> }
SnapshotPool ==
    { [tag |-> t, date |-> ev[2], time |-> T1007, name |-> ev[1]] :
        t \in SnapshotTags, ev \in SnapshotEvents }

RECURSIVE SeqsUpTo(_, _)
\* the sequences over S of length at most n
SeqsUpTo(S, n) ==
    IF n = 0 THEN { <<>> }
    ELSE LET shorter == SeqsUpTo(S, n - 1)
         IN  shorter \cup { Append(sq, x) : sq \in shorter, x \in S }

\* a run that has started no check yet, at the first scratch location
RunStart ==
    /\ global_tmp_dir = ScratchDirs[1]
    /\ store = [path \in CachePaths |-> Absent]
    /\ pc = [p \in Procs |-> "idle"]
    /\ searchdefs = [p \in Procs |-> <<>>]
    /\ search_results = [p \in Procs |-> <<>>]
    /\ ret = [p \in Procs |-> NoReturn]
    /\ calls = [p \in Procs |-> 0]
    /\ loads = [p \in Procs |-> 0]
    /\ searches = [p \in Procs |-> 0]
    /\ aggregations = [p \in Procs |-> 0]
    /\ sets = 0
    /\ hist = [p \in Procs |-> NoCall]

InitCache ==
    /\ snapshot \in SeqsUpTo(SnapshotPool, MaxSnapshot)
    /\ installed \in { {"nova", "neutron"}, {"neutron"} }
    /\ RunStart

\* execute(): self.load(), self.searchobj.run(), and run() up to its read of the
\* cache.  The search hands back the matches of the snapshot; the order in
\* which matches of different files come back is the search engine's.
ExecuteGet(p) ==
    /\ pc[p] = "idle"
    /\ calls[p] < MaxCalls
    /\ calls' = [calls EXCEPT ![p] = @ + 1]
    /\ loads' = [loads EXCEPT ![p] = @ + 1]
    /\ searches' = [searches EXCEPT ![p] = @ + 1]
    /\ searchdefs' = [searchdefs EXCEPT
                         ![p] = @ \o LoadDefs(installed, Len(Projects))]
    /\ \E sr \in {snapshot, Reverse(snapshot)} :
          search_results' = [search_results EXCEPT
                                ![p] = SearchRun(searchdefs'[p], sr)]
    /\ hist' = [hist EXCEPT ![p] =
                  [called |-> TRUE, stored |-> cache.present,
                   seen |-> cache.value,
                   hit |-> IsHit(CacheGetOrEmpty(cache)),
                   loads0 |-> loads[p], searches0 |-> searches[p],
                   aggs0 |-> aggregations[p]]]
    /\ IF IsHit(CacheGetOrEmpty(cache))
       THEN /\ ret' = [ret EXCEPT ![p] = Returned(CacheGetOrEmpty(cache))]
            /\ pc' = pc
       ELSE /\ ret' = [ret EXCEPT ![p] = NoReturn]
            /\ pc' = [pc EXCEPT ![p] = "aggregate"]
    /\ UNCHANGED <<snapshot, installed, global_tmp_dir, store, aggregations, sets>>

\* AggregateSet writing an empty value to the cache, whatever it returns
AggregateSet_StoresEmpty(p) ==
    /\ pc[p] = "aggregate"
    /\ store' = [store EXCEPT ![CachePath(global_tmp_dir)] = Stored(<<>>)]
    /\ ret' = [ret EXCEPT ![p] =
                 Returned(Aggregate(search_results[p], installed,
                                    event_tally_granularity))]
    /\ aggregations' = [aggregations EXCEPT ![p] = @ + 1]
    /\ sets' = sets + 1
    /\ pc' = [pc EXCEPT ![p] = "idle"]
    /\ UNCHANGED <<snapshot, installed, global_tmp_dir, searchdefs,
                   search_results, calls, loads, searches, hist>>

\* run() from the loops over the projects to its return: aggregate, write the
\* result through to the cache, return it
AggregateSet(p) ==
    /\ pc[p] = "aggregate"
    /\ LET agent_exceptions ==
               Aggregate(search_results[p], installed, event_tally_granularity)
       IN  IF agent_exceptions = RaisedTypeError
           THEN \* the exception leaves run() and execute(): no cache.set
                /\ ret' = [ret EXCEPT ![p] = Escaped(RaisedTypeError)]
                /\ UNCHANGED <<store, sets>>
           ELSE /\ store' = [store EXCEPT ![CachePath(global_tmp_dir)] =
                                       Stored(agent_exceptions)]
                /\ ret' = [ret EXCEPT ![p] = Returned(agent_exceptions)]
                /\ sets' = sets + 1
    /\ aggregations' = [aggregations EXCEPT ![p] = @ + 1]
    /\ pc' = [pc EXCEPT ![p] = "idle"]
    /\ UNCHANGED <<snapshot, installed, global_tmp_dir, searchdefs,
                   search_results, calls, loads, searches, hist>>

\* the snapshots analysed by successive runs: nothing matched, or one line
\* of event "A" on 2022-02-04 under one of the tags
RunSnapshots ==
    { <<>> } \cup { <<r>> : r \in {q \in SnapshotPool : q.date = D04 /\ q.name = <<65>>} }
        \cup { << [tag |-> Tag("nova", "nova-compute", "warning"),
                   date |-> D04, time |-> TBad, name |-> <<65>>] >> }

InitRuns ==
    /\ event_tally_granularity \in {"date", "time"}
    /\ snapshot \in RunSnapshots
    /\ installed = {"nova", "neutron"}
    /\ RunStart

\* a new analysis run: a scratch location no earlier run used, a snapshot of
\* its own, and check processes that have not called execute() yet
NewRun ==
    /\ \A p \in Procs : pc[p] = "idle"
    /\ \E dir \in DirSet :
          /\ DirIndex(dir) > DirIndex(global_tmp_dir)
          /\ global_tmp_dir' = dir
    /\ snapshot' \in RunSnapshots
    /\ searchdefs' = [p \in Procs |-> <<>>]
    /\ search_results' = [p \in Procs |-> <<>>]
    /\ ret' = [p \in Procs |-> NoReturn]
    /\ calls' = [p \in Procs |-> 0]
    /\ loads' = [p \in Procs |-> 0]
    /\ searches' = [p \in Procs |-> 0]
    /\ aggregations' = [p \in Procs |-> 0]
    /\ sets' = 0
    /\ hist' = [p \in Procs |-> NoCall]
    /\ UNCHANGED <<installed, store, pc>>

-----------------------------------------------------------------------------
(* The scenario decision engine (YScenarioChecker): condition trees over the  *)
(* facts, one evaluation of every scenario per run, one issue per scenario    *)
(* that fires.                                                                *)

\* the facts the atomic predicates read
FactNames == {"f1", "f2", "f3"}
\* a fact is true, false, or its collaborator could not supply it
FactValues == {"true", "false", "absent"}

\* ---- package versions: [epoch:]upstream[-revision], compared as dpkg does ----
HYPHEN == 45
TILDE == 126
ZERO == 48
IsAlpha(c) == (c >= 65 /\ c <= 90) \/ (c >= 97 /\ c <= 122)
\* dpkg takes the ASCII digits only
IsAsciiDigit(c) == c >= ZERO /\ c <= ZERO + 9

\* weight of a character in the comparison of the non-digit parts
Order(c) ==
    IF IsAsciiDigit(c) THEN 0
    ELSE IF IsAlpha(c) THEN c
    ELSE IF c = TILDE THEN 0 - 1
    ELSE c + 256

\* length of the longest prefix without a digit / of digits only
RECURSIVE NonDigitRun(_)
NonDigitRun(s) ==
    IF s = <<>> \/ IsAsciiDigit(s[1]) THEN 0 ELSE 1 + NonDigitRun(Tail(s))
RECURSIVE DigitPrefix(_)
DigitPrefix(s) ==
    IF s = <<>> \/ ~IsAsciiDigit(s[1]) THEN 0 ELSE 1 + DigitPrefix(Tail(s))

\* the number a run of digits stands for
RECURSIVE Value(_)
Value(digits) ==
    IF digits = <<>> THEN 0
    ELSE 10 * Value(SubSeq(digits, 1, Len(digits) - 1))
            + (digits[Len(digits)] - ZERO)

Sign(a, b) == IF a < b THEN 0 - 1 ELSE IF a > b THEN 1 ELSE 0

\* two non-digit parts, character by character, the shorter padded
RECURSIVE CmpNonDigit(_, _)
CmpNonDigit(x, y) ==
    IF x = <<>> /\ y = <<>> THEN 0
    ELSE LET ac == IF x = <<>> THEN 0 ELSE Order(x[1])
             bc == IF y = <<>> THEN 0 ELSE Order(y[1])
         IN  IF ac # bc THEN Sign(ac, bc)
             ELSE CmpNonDigit(IF x = <<>> THEN x ELSE Tail(x),
                              IF y = <<>> THEN y ELSE Tail(y))

\* two upstream versions or two revisions: alternately a non-digit part and
\* a number; -1, 0 or 1
RECURSIVE VerRevCmp(_, _)
VerRevCmp(a, b) ==
    IF a = <<>> /\ b = <<>> THEN 0
    ELSE LET na == NonDigitRun(a)
             nb == NonDigitRun(b)
             c  == CmpNonDigit(SubSeq(a, 1, na), SubSeq(b, 1, nb))
             a1 == SubSeq(a, na + 1, Len(a))
             b1 == SubSeq(b, nb + 1, Len(b))
             da == DigitPrefix(a1)
             db == DigitPrefix(b1)
             n  == Sign(Value(SubSeq(a1, 1, da)), Value(SubSeq(b1, 1, db)))
         IN  IF c # 0 THEN c
             ELSE IF n # 0 THEN n
             ELSE VerRevCmp(SubSeq(a1, da + 1, Len(a1)),
                            SubSeq(b1, db + 1, Len(b1)))

\* the parts of a version string
FirstIndex(s, c) ==
    IF \E i \in 1..Len(s) : s[i] = c
    THEN CHOOSE i \in 1..Len(s) : s[i] = c /\ \A j \in 1..(i - 1) : s[j] # c
    ELSE 0
LastIndex(s, c) ==
    IF \E i \in 1..Len(s) : s[i] = c
    THEN CHOOSE i \in 1..Len(s) : s[i] = c /\ \A j \in (i + 1)..Len(s) : s[j] # c
    ELSE 0
Epoch(v) ==
    IF FirstIndex(v, COLON) = 0 THEN 0
    ELSE Value(SubSeq(v, 1, FirstIndex(v, COLON) - 1))
NoEpoch(v) == SubSeq(v, FirstIndex(v, COLON) + 1, Len(v))
Upstream(v) ==
    LET r == NoEpoch(v)
    IN  IF LastIndex(r, HYPHEN) = 0 THEN r
        ELSE SubSeq(r, 1, LastIndex(r, HYPHEN) - 1)
Revision(v) ==
    LET r == NoEpoch(v)
    IN  IF LastIndex(r, HYPHEN) = 0 THEN <<>>
        ELSE SubSeq(r, LastIndex(r, HYPHEN) + 1, Len(r))

\* VersionLess comparing the version strings character by character
VersionLess_Lexicographic(a, b) == StrLess(a, b)

\* version a is earlier than version b
VersionLess(a, b) ==
    IF Epoch(a) # Epoch(b) THEN Epoch(a) < Epoch(b)
    ELSE IF VerRevCmp(Upstream(a), Upstream(b)) # 0
         THEN VerRevCmp(Upstream(a), Upstream(b)) < 0
    ELSE VerRevCmp(Revision(a), Revision(b)) < 0

\* "2:16.4.1", the version that fixes the bug
FixedVersion == <<50, 58, 49, 54, 46, 52, 46, 49>>
\* "2:16.4.0-0ubuntu2"
V16_4_0 == <<50, 58, 49, 54, 46, 52, 46, 48, 45, 48, 117, 98, 117, 110, 116, 117, 50>>
\* "2:16.4.1-0ubuntu2"
V16_4_1 == <<50, 58, 49, 54, 46, 52, 46, 49, 45, 48, 117, 98, 117, 110, 116, 117, 50>>
\* "2:16.10.0-0ubuntu1"
V16_10_0 == <<50, 58, 49, 54, 46, 49, 48, 46, 48, 45, 48, 117, 98, 117, 110, 116, 117, 49>>
\* "1:17.0.0-0ubuntu1"
V17_Epoch1 == <<49, 58, 49, 55, 46, 48, 46, 48, 45, 48, 117, 98, 117, 110, 116, 117, 49>>
\* "2:16.4.1~rc1-0ubuntu1"
V16_4_1_rc == <<50, 58, 49, 54, 46, 52, 46, 49, 126, 114, 99, 49, 45, 48, 117, 98, 117, 110, 116, 117, 49>>
\* what the package inventory can report for neutron-common
NotInstalled == <<>>
VersionPool == {NotInstalled, V16_4_0, V16_4_1, V16_10_0, V17_Epoch1, V16_4_1_rc}

\* ---- condition trees ----
\* a predicate's read of its fact raises when the fact is unavailable
ReadRaises(f, fact) == f[fact] = "absent"

\* Predicate letting the exception of the read escape
PredicateRaises_Escapes(f, fact) == ReadRaises(f, fact)

\* a predicate catches what its read raises, so none escapes it
PredicateRaises(f, fact) == FALSE

\* the nodes of a condition tree
Leaf(fact) == [op |-> "leaf", fact |-> fact, args |-> <<>>]
Not(a) == [op |-> "not", fact |-> "", args |-> <<a>>]
And(as) == [op |-> "and", fact |-> "", args |-> as]
Or(as) == [op |-> "or", fact |-> "", args |-> as]
Always == [op |-> "always", fact |-> "", args |-> <<>>]
\* package installed at a version earlier than max
AptBelow(max) == [op |-> "apt", fact |-> "", args |-> <<max>>]

\* EvalAll deciding on its first operand alone
RECURSIVE Evaluate(_, _)
EvalAll_FirstOnly(f, args, i) == Evaluate(f, args[1])

\* AND: the operands in order, stopping at the first that is false
RECURSIVE EvalAll(_, _, _)
EvalAll(f, args, i) ==
    IF i > Len(args) THEN TRUE
    ELSE IF ~Evaluate(f, args[i]) THEN FALSE
    ELSE EvalAll(f, args, i + 1)

\* OR: the operands in order, stopping at the first that is true
RECURSIVE EvalAny(_, _, _)
EvalAny(f, args, i) ==
    IF i > Len(args) THEN FALSE
    ELSE IF Evaluate(f, args[i]) THEN TRUE
    ELSE EvalAny(f, args, i + 1)

\* evaluate(facts) -> bool; a predicate whose fact is unavailable is false
Evaluate(f, node) ==
    CASE node.op = "leaf" -> ~ReadRaises(f, node.fact) /\ f[node.fact] = "true"
      [] node.op = "apt" ->
            dpkg_l # NotInstalled /\ VersionLess(dpkg_l, node.args[1])
      [] node.op = "not" -> ~Evaluate(f, node.args[1])
      [] node.op = "and" -> EvalAll(f, node.args, 1)
      [] node.op = "or" -> EvalAny(f, node.args, 1)
      [] OTHER -> TRUE

\* whether an exception escapes the evaluation of a condition tree, which
\* evaluates the operands of AND and OR in order and stops as soon as decided
RECURSIVE Escapes(_, _)
RECURSIVE EscapesAll(_, _, _)
EscapesAll(f, args, i) ==
    IF i > Len(args) THEN FALSE
    ELSE IF Escapes(f, args[i]) THEN TRUE
    ELSE IF ~Evaluate(f, args[i]) THEN FALSE
    ELSE EscapesAll(f, args, i + 1)
RECURSIVE EscapesAny(_, _, _)
EscapesAny(f, args, i) ==
    IF i > Len(args) THEN FALSE
    ELSE IF Escapes(f, args[i]) THEN TRUE
    ELSE IF Evaluate(f, args[i]) THEN FALSE
    ELSE EscapesAny(f, args, i + 1)
Escapes(f, node) ==
    CASE node.op = "leaf" -> PredicateRaises(f, node.fact)
      [] node.op = "not" -> Escapes(f, node.args[1])
      [] node.op = "and" -> EscapesAll(f, node.args, 1)
      [] node.op = "or" -> EscapesAny(f, node.args, 1)
      [] OTHER -> FALSE

\* the scenario definitions of the run: a condition and an ordered list of
\* conclusions, each with the condition under which it is the one reported
Scenarios ==
    << [cond |-> And(<<Leaf("f1"), Leaf("f2")>>),
        conclusions |-> << [when |-> Always, type |-> "bug"] >>],
       [cond |-> Or(<<Leaf("f2"), Leaf("f1")>>),
        conclusions |-> << [when |-> Always, type |-> "bug"] >>],
       [cond |-> Not(Leaf("f3")),
        conclusions |-> << [when |-> Always, type |-> "warning"] >>],
       [cond |-> And(<<Or(<<Leaf("f1"), Leaf("f3")>>), Not(Leaf("f2")), Leaf("f1")>>),
        conclusions |-> << [when |-> Always, type |-> "warning"] >>],
       [cond |-> Or(<<Leaf("f3"), Leaf("f2")>>),
        conclusions |-> << [when |-> Leaf("f2"), type |-> "error"],
                           [when |-> Always, type |-> "warning"] >>],
       [cond |-> AptBelow(FixedVersion),
        conclusions |-> << [when |-> Always, type |-> "bug"] >>] >>

\* the conclusions of scenario k that match, in their order
RECURSIVE Matching(_, _, _)
Matching(f, k, n) ==
    IF n = 0 THEN <<>>
    ELSE LET c == Scenarios[k].conclusions[n]
         IN  IF Evaluate(f, c.when)
             THEN Append(Matching(f, k, n - 1), [id |-> k, type |-> c.type])
             ELSE Matching(f, k, n - 1)

\* Emit reporting every matching conclusion
Emit_AllMatching(f, k) == Matching(f, k, Len(Scenarios[k].conclusions))

\* the issues scenario k sends to the sink when it fires: its first matching
\* conclusion, and only that one
Emit(f, k) ==
    LET m == Matching(f, k, Len(Scenarios[k].conclusions))
    IN  IF m = <<>> THEN <<>> ELSE <<m[1]>>

InitScenario ==
    /\ facts \in [FactNames -> FactValues]
    /\ sidx = 1
    /\ issues = <<>>
    /\ requeries = 0
    /\ dpkg_l \in VersionPool
    /\ run_error = FALSE

\* the runner evaluates the next scenario, once, and reports it if it fires;
\* an exception that escapes the evaluation ends the run
RunScenario ==
    /\ sidx <= Len(Scenarios)
    /\ IF Escapes(facts, Scenarios[sidx].cond)
       THEN /\ run_error' = TRUE
            /\ sidx' = Len(Scenarios) + 1
            /\ issues' = issues
       ELSE /\ run_error' = run_error
            /\ sidx' = sidx + 1
            /\ issues' = IF Evaluate(facts, Scenarios[sidx].cond)
                         THEN issues \o Emit(facts, sidx) ELSE issues
    /\ UNCHANGED <<facts, requeries, dpkg_l>>

\* some check reads the facts again; the snapshot is static, and reading a
\* fact evaluates no scenario
Requery ==
    /\ requeries < MaxRequeries
    /\ requeries' = requeries + 1
    /\ UNCHANGED <<facts, sidx, issues, dpkg_l, run_error>>

-----------------------------------------------------------------------------
(* LogEventStats (core.analytics) and NeutronAgentEventChecks.process_results *)
(* (plugins/openstack/pyparts/agent_checks.py).  A sample is an entity id     *)
(* with the duration between its start and its end, in 1/100 s.               *)

\* stats.get_top_n_events_sorted(5)
TopN == 5

\* Longer without the order of the entity ids among equal durations
Longer_NoTieBreak(a, b) == a.duration > b.duration

\* sample a comes before sample b in the top list: the longer duration first,
\* of equal durations the lower entity id first
Longer(a, b) ==
    \/ a.duration > b.duration
    \/ a.duration = b.duration /\ a.id < b.id

\* x put before the first sample it comes before
RECURSIVE InsertSample(_, _)
InsertSample(sorted, x) ==
    IF sorted = <<>> THEN <<x>>
    ELSE IF Longer(x, Head(sorted)) THEN <<x>> \o sorted
    ELSE <<Head(sorted)>> \o InsertSample(Tail(sorted), x)

\* the first n samples of the collection, sorted
RECURSIVE SortSamples(_, _)
SortSamples(data, n) ==
    IF n = 0 THEN <<>> ELSE InsertSample(SortSamples(data, n - 1), data[n])

\* get_top_n_events_sorted returning every sample
get_top_n_events_sorted_All(data, max) == SortSamples(data, Len(data))

\* the max first samples of the sorted collection, all of them if fewer
get_top_n_events_sorted(data, max) ==
    LET sorted == SortSamples(data, Len(data))
    IN  SubSeq(sorted, 1, IF Len(sorted) < max THEN Len(sorted) ELSE max)

RECURSIVE SumDurations(_)
SumDurations(data) ==
    IF data = <<>> THEN 0 ELSE Head(data).duration + SumDurations(Tail(data))
RECURSIVE SumSquares(_)
SumSquares(data) ==
    IF data = <<>> THEN 0
    ELSE Head(data).duration * Head(data).duration + SumSquares(Tail(data))
RECURSIVE MinDuration(_)
MinDuration(data) ==
    IF Len(data) = 1 THEN data[1].duration
    ELSE LET m == MinDuration(Tail(data))
         IN  IF Head(data).duration < m THEN Head(data).duration ELSE m
RECURSIVE MaxDuration(_)
MaxDuration(data) ==
    IF Len(data) = 1 THEN data[1].duration
    ELSE LET m == MaxDuration(Tail(data))
         IN  IF Head(data).duration > m THEN Head(data).duration ELSE m

\* round(num / den) for num >= 0 and den > 0, a tie going to the even value
RoundDiv(num, den) ==
    LET q == num \div den
        r == num % den
    IN  IF 2 * r < den THEN q
        ELSE IF 2 * r > den THEN q + 1
        ELSE IF q % 2 = 0 THEN q ELSE q + 1

\* round(sqrt(v) / n): the least s with sqrt(v) / n < s + 1/2
RECURSIVE RoundRoot(_, _, _)
RoundRoot(v, n, s) ==
    IF 4 * v < (2 * s + 1) * (2 * s + 1) * n * n THEN s
    ELSE RoundRoot(v, n, s + 1)

NoStats == [samples |-> 0, min |-> 0, max |-> 0, avg |-> 0, stdev |-> 0]

\* the statistics of the samples of a collection that is not empty
StatsOf(data) ==
    LET n == Len(data)
    IN  [samples |-> n,
         min |-> MinDuration(data),
         max |-> MaxDuration(data),
         avg |-> RoundDiv(SumDurations(data), n),
         stdev |-> RoundRoot(n * SumSquares(data)
                               - SumDurations(data) * SumDurations(data), n, 0)]

\* get_event_stats computing from the listed top samples only
get_event_stats_TopOnly(data) ==
    IF data = <<>> THEN NoStats
    ELSE StatsOf(get_top_n_events_sorted(data, TopN))

\* get_event_stats: count, min, max, avg and population standard deviation
\* of every sample
get_event_stats(data) == IF data = <<>> THEN NoStats ELSE StatsOf(data)

\* compute(samples, top_n) -> (TopN, StatsSummary)
Compute(data, top_n) ==
    [top |-> get_top_n_events_sorted(data, top_n), stats |-> get_event_stats(data)]

\* self.event_definitions: the sections (agents) and the events of each
EventDefinitions ==
    << [section |-> "neutron-ovs-agent", events |-> <<"rpc-loop">>],
       [section |-> "neutron-l3-agent",
        events |-> <<"router-spawn-events", "router-updates">>] >>
EventNamesOf(k) ==
    {EventDefinitions[k].events[i] : i \in 1..Len(EventDefinitions[k].events)}
AllEvents == UNION {EventNamesOf(k) : k \in 1..Len(EventDefinitions)}

\* SectionLoop recording an entry for an event that has no sample
RECURSIVE SectionLoop_NoBreak(_, _, _, _)
SectionLoop_NoBreak(es, events, i, acc) ==
    IF i > Len(events) THEN acc
    ELSE SectionLoop_NoBreak(es, events, i + 1,
             Put(acc, events[i], [top |-> get_top_n_events_sorted(es[events[i]], TopN),
                                  stats |-> get_event_stats(es[events[i]])]))

\* for event in events: from event number i on, acc being the entries of
\* the section so far; the loop is left at the first event without a sample
RECURSIVE SectionLoop(_, _, _, _)
SectionLoop(es, events, i, acc) ==
    IF i > Len(events) THEN acc
    ELSE LET top5 == get_top_n_events_sorted(es[events[i]], TopN)
         IN  IF top5 = <<>> THEN acc
             ELSE SectionLoop(es, events, i + 1,
                      Put(acc, events[i],
                          [top |-> top5, stats |-> get_event_stats(es[events[i]])]))

\* for section, events in self.event_definitions.items(): the first k sections
RECURSIVE process_sections(_, _)
process_sections(es, k) ==
    IF k = 0 THEN <<>>
    ELSE LET before  == process_sections(es, k - 1)
             entries == SectionLoop(es, EventDefinitions[k].events, 1, <<>>)
         IN  IF entries = <<>> THEN before
             ELSE Put(before, EventDefinitions[k].section, entries)

\* process_results(results) -> agent_info
process_results(es) == process_sections(es, Len(EventDefinitions))

NotProcessed == [kind |-> "notcalled", value |-> <<>>]
Processed(info) == [kind |-> "returned", value |-> info]

\* the entity ids of the samples
Ids == 1..MaxSamples
\* the durations of the samples by entity id: alternating 0.02 and 0.01, all
\* 0.02, or the square of the id
DurationProfiles ==
    { [i \in Ids |-> 1 + (i % 2)], [i \in Ids |-> 2], [i \in Ids |-> i * i] }
SampleOf(i) == [id |-> i, duration |-> durations[i]]
IdsOf(data) == {data[j].id : j \in 1..Len(data)}

\* the samples of rpc-loop arrive one by one, in any order of the entity ids
InitStats ==
    /\ durations \in DurationProfiles
    /\ event_samples = [e \in AllEvents |-> <<>>]
    /\ agent_info = NotProcessed
    /\ ppc = "input"

\* LogEventStats.run() pairs the start and the end of one more entity
SampleArrives ==
    /\ ppc = "input"
    /\ Len(event_samples["rpc-loop"]) < MaxSamples
    /\ \E i \in Ids \ IdsOf(event_samples["rpc-loop"]) :
          event_samples' = [event_samples EXCEPT
                               !["rpc-loop"] = Append(@, SampleOf(i))]
    /\ UNCHANGED <<durations, agent_info, ppc>>

ProcessResults ==
    /\ ppc = "input"
    /\ agent_info' = Processed(process_results(event_samples))
    /\ ppc' = "done"
    /\ UNCHANGED <<durations, event_samples>>

\* the sample collections an event can have when every event has its own:
\* none, one sample, two samples of the same duration, six samples
Populations ==
    { <<>>,
      <<SampleOf(3)>>,
      <<SampleOf(4), SampleOf(2)>>,
      <<SampleOf(2), SampleOf(5), SampleOf(1), SampleOf(6), SampleOf(3), SampleOf(4)>> }

InitEvents ==
    /\ durations = [i \in Ids |-> 1 + (i % 2)]
    /\ event_samples \in [AllEvents -> Populations]
    /\ agent_info = NotProcessed
    /\ ppc = "input"

-----------------------------------------------------------------------------
(* OctaviaAgentEventChecks: the failover callbacks                        *)
(* (plugins/openstack/pyparts/agent_checks.py).  A failover record has    *)
(* the date of the log line as group 1 and, as group 2, the payload of    *)
(* the line: the text of a mapping, as Python prints a dict.  The text is *)
(* held as its entries in order, each value a scalar with its text and    *)
(* whether it is written in quotes.                                       *)

Quoted(text) == [quoted |-> TRUE, text |-> text]
Plain(text) == [quoted |-> FALSE, text |-> text]

\* the plain scalars YAML reads as null: "", "~", "null", "Null", "NULL"
YamlNulls ==
    { <<>>, <<126>>, <<110, 117, 108, 108>>, <<78, 117, 108, 108>>,
      <<78, 85, 76, 76>> }

\* the value yaml.safe_load gives a scalar: None for a plain null, the text
\* for a quoted scalar and for any other plain one that is no number and no
\* boolean, the plain None that Python prints included
Resolve(scalar) ==
    IF ~scalar.quoted /\ scalar.text \in YamlNulls THEN None ELSE scalar.text

\* yaml.safe_load(result.get(2)): the dict of the mapping
RECURSIVE safe_load(_)
safe_load(text) ==
    IF text = <<>> THEN <<>>
    ELSE Put(safe_load(SubSeq(text, 1, Len(text) - 1)),
             text[Len(text)].k, Resolve(text[Len(text)].v))

\* payload.get(key)
DictGet(d, key) == IF Has(d, key) THEN Get(d, key) ELSE None

\* _get_failover: (ts_date, lb_id), or (None, None) when the payload gives
\* None for load_balancer_id
get_failover(result) ==
    LET ts_date == result.date
        payload == safe_load(result.payload)
        lb_id   == DictGet(payload, "load_balancer_id")
    IN  IF lb_id = None THEN <<None, None>> ELSE <<ts_date, lb_id>>

\* the body of the loop of _get_failovers for one record
CountFailover(failovers, r) ==
    LET ts_date == get_failover(r)[1]
        lb_id   == get_failover(r)[2]
    IN  IF ts_date = None THEN failovers
        ELSE LET dated == IF Has(failovers, ts_date) THEN failovers
                          ELSE Put(failovers, ts_date, <<>>)
                 lbs   == Get(dated, ts_date)
             IN  IF ~Has(lbs, lb_id)
                 THEN Put(dated, ts_date, Put(lbs, lb_id, 1))
                 ELSE Put(dated, ts_date, Put(lbs, lb_id, Get(lbs, lb_id) + 1))

\* _get_failovers: the records are counted in the order they are given
RECURSIVE get_failovers(_)
get_failovers(rs) ==
    IF rs = <<>> THEN <<>>
    ELSE CountFailover(get_failovers(SubSeq(rs, 1, Len(rs) - 1)), rs[Len(rs)])

\* what a callback returned: nothing, or its value with the key it goes under
NoInfo == [has |-> FALSE, value |-> <<>>, key |-> ""]
Info(v, key) == [has |-> TRUE, value |-> v, key |-> key]

\* lb_failover_auto: {'auto': ret}, 'lb-failovers' when there is a count
lb_failover_auto(rs) ==
    IF rs = <<>> THEN NoInfo
    ELSE LET r == get_failovers(rs)
         IN  IF r # <<>> THEN Info(<<[k |-> "auto", v |-> r]>>, "lb-failovers")
             ELSE NoInfo

\* the dates of the records: "2021-03-09", "2021-03-10"
F09 == <<50, 48, 50, 49, 45, 48, 51, 45, 48, 57>>
F10 == <<50, 48, 50, 49, 45, 48, 51, 45, 49, 48>>
FailoverDates == { F09, F10 }
\* "lb1", "lb2", "amp1" and the None Python prints for a missing value
LB1 == <<108, 98, 49>>
LB2 == <<108, 98, 50>>
AMP1 == <<97, 109, 112, 49>>
PyNone == <<78, 111, 110, 101>>
\* the payloads: a failover of either of two load balancers, a payload about
\* an amphora only, an amphora that belongs to no load balancer as Python
\* prints it ('load_balancer_id': None), and the same with a YAML null
PayloadPool ==
    { <<[k |-> "id", v |-> Quoted(AMP1)], [k |-> "load_balancer_id", v |-> Quoted(LB1)]>>,
      <<[k |-> "load_balancer_id", v |-> Quoted(LB2)]>>,
      <<[k |-> "id", v |-> Quoted(AMP1)]>>,
      <<[k |-> "id", v |-> Quoted(AMP1)], [k |-> "load_balancer_id", v |-> Plain(PyNone)]>>,
      <<[k |-> "load_balancer_id", v |-> Plain(<<110, 117, 108, 108>>)]>> }
FailoverPool == [date : FailoverDates, payload : PayloadPool]

InitFailovers ==
    /\ failover_results = <<>>
    /\ failover_info = NoInfo
    /\ fpc = "input"

\* the search finds one more failover line
FailoverArrives ==
    /\ fpc = "input"
    /\ Len(failover_results) < MaxFailovers
    /\ \E r \in FailoverPool : failover_results' = Append(failover_results, r)
    /\ UNCHANGED <<failover_info, fpc>>

\* the callback runs on the results of the event
LbFailoverAuto ==
    /\ fpc = "input"
    /\ failover_info' = lb_failover_auto(failover_results)
    /\ fpc' = "done"
    /\ UNCHANGED failover_results

-----------------------------------------------------------------------------
(* AgentChecks.__call__ (plugins/openstack/pyparts/agent_checks.py): the  *)
(* four checks share one FileSearcher.  The neutron event check registers *)
(* a term for each of its events; each other check stands for its terms.  *)
(* The searcher holds the terms of the checks that registered, and the    *)
(* results of a search hold the registered terms that match the logs.     *)

\* checks = [...], in the order of the list
AgentCheckNames ==
    <<"neutron-agent-checks", "neutron", "octavia-checks", "apparmor-checks">>

\* what register_search_terms() of a check adds to the searcher
TermsOf(check) ==
    IF check = "neutron-agent-checks" THEN AllEvents ELSE {check}
AllTerms == UNION { TermsOf(AgentCheckNames[i]) : i \in 1..Len(AgentCheckNames) }

\* the key the octavia and the apparmor check report under
OutputKey(check) ==
    CASE check = "octavia-checks"  -> "octavia"
      [] check = "apparmor-checks" -> "apparmor"
      [] OTHER                     -> ""

\* s.search() over the terms registered so far
NotSearched == [ran |-> FALSE, found |-> {}]
SearcherSearch(checks, matches) ==
    [ran |-> TRUE,
     found |-> UNION { TermsOf(checks[i]) : i \in 1..Len(checks) } \cap matches]

\* what LogEventStats collects from the results for the neutron events: one
\* sample for every event whose term matched
SamplesIn(res) ==
    [e \in AllEvents |->
        IF e \in res.found THEN <<[id |-> 1, duration |-> 1]>> ELSE <<>>]

\* check.process_results(results): the neutron event check returns its
\* agent_info, keyed by the sections that have a reported event; the octavia
\* and the apparmor check return what they found under their key; the bug
\* check returns nothing
ProcessResultsOf(check, res) ==
    CASE check = "neutron-agent-checks" -> process_results(SamplesIn(res))
      [] check \in {"octavia-checks", "apparmor-checks"} ->
            IF check \in res.found
            THEN <<[k |-> OutputKey(check), v |-> <<>>]>>
            ELSE <<>>
      [] OTHER -> <<>>

\* output.update(check_results)
RECURSIVE DictUpdate(_, _)
DictUpdate(d, u) ==
    IF u = <<>> THEN d ELSE DictUpdate(Put(d, Head(u).k, Head(u).v), Tail(u))

\* positions inside __call__
At(where, i) == [at |-> where, i |-> i]

\* the registration loop left after its first check
AfterRegister_LeavesEarly(i) == At("search", 0)

\* where the registration loop goes after check i: the next check, or on to
\* the search
AfterRegister(i) ==
    IF i < Len(AgentCheckNames) THEN At("register", i + 1) ELSE At("search", 0)

\* where the loop over the results goes after check i
AfterProcess(i) ==
    IF i < Len(AgentCheckNames) THEN At("process", i + 1) ELSE At("finish", 0)

\* self._output before __call__ sets it
Unset == [set |-> FALSE, value |-> <<>>]

InitCall ==
    /\ openstack_installed \in BOOLEAN
    /\ log_matches \in SUBSET AllTerms
    /\ registered = <<>>
    /\ searcher_runs = 0
    /\ call_results = NotSearched
    /\ processed = <<>>
    /\ output = <<>>
    /\ agent_output = Unset
    /\ cpc = At("start", 0)

\* if not self.openstack_installed: return; otherwise the searcher and the
\* checks are made
CallGuard ==
    /\ cpc.at = "start"
    /\ cpc' = IF ~openstack_installed THEN At("done", 0) ELSE At("register", 1)
    /\ UNCHANGED <<openstack_installed, log_matches, registered, searcher_runs,
                   call_results, processed, output, agent_output>>

\* check.register_search_terms()
RegisterSearchTerms ==
    /\ cpc.at = "register"
    /\ registered' = Append(registered, AgentCheckNames[cpc.i])
    /\ cpc' = AfterRegister(cpc.i)
    /\ UNCHANGED <<openstack_installed, log_matches, searcher_runs,
                   call_results, processed, output, agent_output>>

\* results = s.search(); output = {}
Search ==
    /\ cpc.at = "search"
    /\ searcher_runs' = searcher_runs + 1
    /\ call_results' = SearcherSearch(registered, log_matches)
    /\ output' = <<>>
    /\ cpc' = At("process", 1)
    /\ UNCHANGED <<openstack_installed, log_matches, registered, processed,
                   agent_output>>

\* check_results = check.process_results(results), merged into output
CheckProcessResults ==
    /\ cpc.at = "process"
    /\ LET check == AgentCheckNames[cpc.i]
           check_results == ProcessResultsOf(check, call_results)
       IN  /\ processed' = Append(processed, [check |-> check, results |-> call_results])
           /\ output' = IF check_results # <<>> THEN DictUpdate(output, check_results)
                        ELSE output
    /\ cpc' = AfterProcess(cpc.i)
    /\ UNCHANGED <<openstack_installed, log_matches, registered, searcher_runs,
                   call_results, agent_output>>

\* if output: self._output = {"agent-checks": output}
SetOutput ==
    /\ cpc.at = "finish"
    /\ agent_output' = IF output # <<>>
                       THEN [set |-> TRUE, value |-> <<[k |-> "agent-checks", v |-> output]>>]
                       ELSE agent_output
    /\ cpc' = At("done", 0)
    /\ UNCHANGED <<openstack_installed, log_matches, registered, searcher_runs,
                   call_results, processed, output>>

-----------------------------------------------------------------------------
(* The parts of the state a specification does not use stay as they start. *)

\* _tally_results is not called on its own
TallyUnused ==
    /\ results = <<>>
    /\ exceptions = NotCalled
    /\ tpc = "input"

TallyIdle ==
    /\ TallyUnused
    /\ event_tally_granularity = "date"

CacheIdle ==
    /\ snapshot = <<>>
    /\ installed = {}
    /\ RunStart

ScenarioIdle ==
    /\ facts = <<>>
    /\ sidx = 0
    /\ issues = <<>>
    /\ requeries = 0
    /\ dpkg_l = NotInstalled
    /\ run_error = FALSE

EventIdle ==
    /\ durations = [i \in Ids |-> 0]
    /\ event_samples = [e \in AllEvents |-> <<>>]
    /\ agent_info = NotProcessed
    /\ ppc = "input"

FailoverIdle == InitFailovers

CallIdle ==
    /\ openstack_installed = FALSE
    /\ log_matches = {}
    /\ registered = <<>>
    /\ searcher_runs = 0
    /\ call_results = NotSearched
    /\ processed = <<>>
    /\ output = <<>>
    /\ agent_output = Unset
    /\ cpc = At("start", 0)

-----------------------------------------------------------------------------
(* Specifications. *)

\* the check processes of one analysis run, sharing the cache
Init == InitCache /\ TallyIdle /\ ScenarioIdle /\ EventIdle /\ FailoverIdle
        /\ CallIdle

Next ==
    \/ \E p \in Procs : ExecuteGet(p) /\ UNCHANGED tallyVars /\ UNCHANGED scenarioVars
          /\ UNCHANGED eventVars /\ UNCHANGED failoverVars
          /\ UNCHANGED callVars
    \/ \E p \in Procs : AggregateSet(p) /\ UNCHANGED tallyVars /\ UNCHANGED scenarioVars
          /\ UNCHANGED eventVars /\ UNCHANGED failoverVars
          /\ UNCHANGED callVars

Spec == Init /\ [][Next]_vars

\* _tally_results on every collection of records up to the bound
TallyInit == InitTally /\ CacheIdle /\ ScenarioIdle /\ EventIdle /\ FailoverIdle
        /\ CallIdle

TallyNext ==
    \/ Arrive /\ UNCHANGED cacheVars /\ UNCHANGED scenarioVars
          /\ UNCHANGED eventVars /\ UNCHANGED failoverVars
          /\ UNCHANGED callVars
    \/ TallyResults /\ UNCHANGED cacheVars /\ UNCHANGED scenarioVars
          /\ UNCHANGED eventVars /\ UNCHANGED failoverVars
          /\ UNCHANGED callVars

SpecTally == TallyInit /\ [][TallyNext]_vars


\* successive analysis runs, each at its own scratch location
RunsInit == InitRuns /\ TallyUnused /\ ScenarioIdle /\ EventIdle /\ FailoverIdle
        /\ CallIdle

RunsNext ==
    \/ \E p \in Procs : ExecuteGet(p) /\ UNCHANGED tallyVars /\ UNCHANGED scenarioVars
          /\ UNCHANGED eventVars /\ UNCHANGED failoverVars
          /\ UNCHANGED callVars
    \/ \E p \in Procs : AggregateSet(p) /\ UNCHANGED tallyVars /\ UNCHANGED scenarioVars
          /\ UNCHANGED eventVars /\ UNCHANGED failoverVars
          /\ UNCHANGED callVars
    \/ NewRun /\ UNCHANGED tallyVars /\ UNCHANGED scenarioVars
          /\ UNCHANGED eventVars /\ UNCHANGED failoverVars
          /\ UNCHANGED callVars

SpecRuns == RunsInit /\ [][RunsNext]_vars

\* one run of the scenario runner over every assignment of the facts
ScenarioInit == InitScenario /\ TallyIdle /\ CacheIdle /\ EventIdle /\ FailoverIdle
        /\ CallIdle

ScenarioNext ==
    \/ RunScenario /\ UNCHANGED tallyVars /\ UNCHANGED cacheVars
          /\ UNCHANGED eventVars /\ UNCHANGED failoverVars
          /\ UNCHANGED callVars
    \/ Requery /\ UNCHANGED tallyVars /\ UNCHANGED cacheVars
          /\ UNCHANGED eventVars /\ UNCHANGED failoverVars
          /\ UNCHANGED callVars

SpecScenario == ScenarioInit /\ [][ScenarioNext]_vars


\* process_results on the samples of one event, in every arrival order
StatsInit == InitStats /\ TallyIdle /\ CacheIdle /\ ScenarioIdle /\ FailoverIdle
        /\ CallIdle

StatsNext ==
    \/ SampleArrives /\ UNCHANGED tallyVars /\ UNCHANGED cacheVars
          /\ UNCHANGED scenarioVars /\ UNCHANGED failoverVars
          /\ UNCHANGED callVars
    \/ ProcessResults /\ UNCHANGED tallyVars /\ UNCHANGED cacheVars
          /\ UNCHANGED scenarioVars /\ UNCHANGED failoverVars
          /\ UNCHANGED callVars

SpecStats == StatsInit /\ [][StatsNext]_vars

\* process_results on every assignment of sample collections to the events
EventsInit == InitEvents /\ TallyIdle /\ CacheIdle /\ ScenarioIdle /\ FailoverIdle
        /\ CallIdle

EventsNext ==
    ProcessResults /\ UNCHANGED tallyVars /\ UNCHANGED cacheVars
        /\ UNCHANGED scenarioVars /\ UNCHANGED failoverVars
          /\ UNCHANGED callVars

SpecEvents == EventsInit /\ [][EventsNext]_vars


\* lb_failover_auto on every collection of failover records up to the bound
FailoversInit == InitFailovers /\ TallyIdle /\ CacheIdle /\ ScenarioIdle /\ EventIdle /\ CallIdle

FailoversNext ==
    \/ FailoverArrives /\ UNCHANGED tallyVars /\ UNCHANGED cacheVars
          /\ UNCHANGED scenarioVars /\ UNCHANGED eventVars /\ UNCHANGED callVars
    \/ LbFailoverAuto /\ UNCHANGED tallyVars /\ UNCHANGED cacheVars
          /\ UNCHANGED scenarioVars /\ UNCHANGED eventVars /\ UNCHANGED callVars

SpecFailovers == FailoversInit /\ [][FailoversNext]_vars

\* AgentChecks.__call__ with OpenStack installed or not, on every set of
\* checks whose terms match the logs
CallInit ==
    InitCall /\ TallyIdle /\ CacheIdle /\ ScenarioIdle /\ EventIdle /\ FailoverIdle

CallNext ==
    \/ CallGuard /\ UNCHANGED tallyVars /\ UNCHANGED cacheVars
          /\ UNCHANGED scenarioVars /\ UNCHANGED eventVars /\ UNCHANGED failoverVars
    \/ RegisterSearchTerms /\ UNCHANGED tallyVars /\ UNCHANGED cacheVars
          /\ UNCHANGED scenarioVars /\ UNCHANGED eventVars /\ UNCHANGED failoverVars
    \/ Search /\ UNCHANGED tallyVars /\ UNCHANGED cacheVars
          /\ UNCHANGED scenarioVars /\ UNCHANGED eventVars /\ UNCHANGED failoverVars
    \/ CheckProcessResults /\ UNCHANGED tallyVars /\ UNCHANGED cacheVars
          /\ UNCHANGED scenarioVars /\ UNCHANGED eventVars /\ UNCHANGED failoverVars
    \/ SetOutput /\ UNCHANGED tallyVars /\ UNCHANGED cacheVars
          /\ UNCHANGED scenarioVars /\ UNCHANGED eventVars /\ UNCHANGED failoverVars

SpecCall == CallInit /\ [][CallNext]_vars

-----------------------------------------------------------------------------
(* Properties of _tally_results (checked under SpecTally). *)

RECURSIVE SumCounts(_)
SumCounts(buckets) ==
    IF buckets = <<>> THEN 0 ELSE Head(buckets).v + SumCounts(Tail(buckets))

\* the quote characters at both ends of a name are not part of the event name
RECURSIVE Unquoted(_)
Unquoted(s) ==
    IF s # <<>> /\ s[1] = QUOTE THEN Unquoted(SubSeq(s, 2, Len(s)))
    ELSE IF s # <<>> /\ s[Len(s)] = QUOTE THEN Unquoted(SubSeq(s, 1, Len(s) - 1))
    ELSE s

\* the positions of the input records that contribute to an event
RecordsOf(event) == {j \in 1..Len(results) : Unquoted(results[j].name) = event}

Tallied == tpc = "done" /\ exceptions.kind = "table"

\* C1: for every event name of the returned table, the sum of the event's
\* per-bucket counts is the number of input records of that event name.
C1_SumIsRecordCount ==
    Tallied =>
        \A i \in 1..Len(exceptions.table) :
            SumCounts(exceptions.table[i].v)
                = Cardinality(RecordsOf(exceptions.table[i].k))

\* three records of one event, spread over two buckets, one name in quotes
C1_Witness ==
    /\ Tallied
    /\ \E i \in 1..Len(exceptions.table) :
          /\ Len(exceptions.table[i].v) = 2
          /\ Cardinality(RecordsOf(exceptions.table[i].k)) = 3
          /\ \E j \in RecordsOf(exceptions.table[i].k) : results[j].name[1] = QUOTE

\* C2: with date granularity the count stored under (event, date) is the
\* number of input records of that event and date, every stored count is of a
\* pair that has a record, and every pair that has a record is stored.
C2_DateCounts ==
    (Tallied /\ event_tally_granularity = "date") =>
        /\ \A i \in 1..Len(exceptions.table) :
              \A b \in 1..Len(exceptions.table[i].v) :
                 LET hits == {j \in RecordsOf(exceptions.table[i].k) :
                                results[j].date = exceptions.table[i].v[b].k}
                 IN  hits # {} /\ exceptions.table[i].v[b].v = Cardinality(hits)
        /\ \A j \in 1..Len(results) :
              /\ Has(exceptions.table, Unquoted(results[j].name))
              /\ Has(Get(exceptions.table, Unquoted(results[j].name)),
                     results[j].date)

\* one event twice on 2022-02-04 and once on 2022-02-09
C2_Witness ==
    /\ tpc = "done"
    /\ event_tally_granularity = "date"
    /\ exceptions = Table(<< [k |-> <<65>>,
                              v |-> << [k |-> D04, v |-> 2],
                                       [k |-> D09, v |-> 1] >>] >>)

\* C3: in every returned table the bucket keys of each event are enumerated in
\* strictly ascending lexicographic order (so no key occurs twice).
C3_BucketsAscending ==
    Tallied =>
        \A i \in 1..Len(exceptions.table) :
            \A b \in 1..(Len(exceptions.table[i].v) - 1) :
                StrLess(exceptions.table[i].v[b].k, exceptions.table[i].v[b + 1].k)

\* time granularity, an event whose later bucket arrived first
C3_Witness ==
    /\ Tallied
    /\ event_tally_granularity = "time"
    /\ Len(results) >= 2
    /\ Unquoted(results[1].name) = Unquoted(results[2].name)
    /\ StrLess(results[2].date, results[1].date)
    /\ Len(Get(exceptions.table, Unquoted(results[1].name))) >= 2

\* the arrival orders of the records in results
ArrivalOrders ==
    {f \in [1..Len(results) -> 1..Len(results)] :
        \A a, b \in 1..Len(results) : f[a] = f[b] => a = b}
Arranged(f) == [i \in 1..Len(results) |-> results[f[i]]]

\* C4 as stated: whatever the arrival order of the records, _tally_results
\* returns the same table with event names and bucket keys in the same order.
C4_SameOrderForEveryArrival ==
    tpc = "done" =>
        \A f \in ArrivalOrders :
            tally_results(Arranged(f), event_tally_granularity) = exceptions

\* event names in the order in which each first arrives
RECURSIVE FirstArrivals(_, _)
FirstArrivals(rs, n) ==
    IF n = 0 THEN <<>>
    ELSE LET before == FirstArrivals(rs, n - 1)
         IN  IF \E j \in 1..Len(before) : before[j] = Unquoted(rs[n].name)
             THEN before ELSE Append(before, Unquoted(rs[n].name))

\* the same events, each with the same buckets in the same order
SameBuckets(a, b) ==
    /\ KeySet(a) = KeySet(b)
    /\ \A event \in KeySet(a) : Get(a, event) = Get(b, event)

\* C4 amended: whatever the arrival order, _tally_results returns the same
\* events with the same buckets and counts, each event's buckets in the same
\* (ascending) order; the event names themselves are enumerated in the order
\* of their first arrival.
C4_SameTableForEveryArrival ==
    tpc = "done" =>
        /\ \A f \in ArrivalOrders :
              LET other == tally_results(Arranged(f), event_tally_granularity)
              IN  /\ other.kind = exceptions.kind
                  /\ SameBuckets(other.table, exceptions.table)
        /\ exceptions.kind = "table" =>
              Keys(exceptions.table) = FirstArrivals(results, Len(results))

\* two events, the first of them with two buckets that arrived out of order
C4_Witness ==
    /\ Tallied
    /\ Len(exceptions.table) = 2
    /\ Len(exceptions.table[1].v) = 2
    /\ Len(results) = 3
    /\ StrLess(results[3].date, results[1].date)

\* the text holds a digit, a colon, a digit and one more character
HasHourMinute(s) ==
    \E i \in 1..Len(s) :
        /\ i + 3 <= Len(s)
        /\ IsDigit(s[i]) /\ s[i + 1] = COLON /\ IsDigit(s[i + 2])

\* the tally by time of these records cannot be keyed
Malformed ==
    /\ event_tally_granularity = "time"
    /\ \E i \in 1..Len(results) : ~HasHourMinute(results[i].time)

\* C16 as stated: nothing for no records, and a non-empty table for any
\* collection of at least one record.
C16_TableForAnyRecords ==
    tpc = "done" =>
        /\ results = <<>> => exceptions = ReturnNone
        /\ results # <<>> =>
              exceptions.kind = "table" /\ exceptions.table # <<>>

\* C16: _tally_results returns nothing (not an empty table) for no records, and
\* a non-empty table for at least one record, unless the tally is by time and a
\* record's time holds no hours:minutes, in which case it raises.
C16_TableUnlessMalformed ==
    tpc = "done" =>
        /\ results = <<>> => exceptions = ReturnNone
        /\ (results # <<>> /\ ~Malformed) =>
              exceptions.kind = "table" /\ exceptions.table # <<>>
        /\ Malformed => exceptions = Raised

\* a tally by time of two well-timed records that returned a table
C16_Witness ==
    /\ tpc = "done"
    /\ event_tally_granularity = "time"
    /\ Len(results) = 2
    /\ ~Malformed
    /\ exceptions.kind = "table"
    /\ exceptions.table # <<>>

\* the number of buckets a returned value holds for an event
NumBuckets(r, event) ==
    IF r.kind = "table" /\ Has(r.table, event)
    THEN Len(Get(r.table, event)) ELSE 0

\* the events of the input records
EventNames == {Unquoted(results[j].name) : j \in 1..Len(results)}

\* C17 as stated: for any records and every event name, the tally by time
\* has at least as many buckets as the tally by date.
C17_TimeRefinesDate ==
    (tpc = "done" /\ event_tally_granularity = "time") =>
        \A event \in EventNames :
            NumBuckets(exceptions, event)
                >= NumBuckets(tally_results(results, "date"), event)

\* C17: for any records whose tally by time does not raise, and every event
\* name, the tally by time has at least as many buckets as the tally by date.
C17_TimeRefinesDateWhenKeyed ==
    (tpc = "done" /\ event_tally_granularity = "time"
                  /\ exceptions.kind = "table") =>
        \A event \in EventNames :
            /\ NumBuckets(tally_results(results, "date"), event) >= 1
            /\ NumBuckets(exceptions, event)
                  >= NumBuckets(tally_results(results, "date"), event)

\* one event with two dates, and two minutes within one of the dates
C17_Witness ==
    /\ tpc = "done" /\ event_tally_granularity = "time"
    /\ exceptions.kind = "table"
    /\ \E event \in EventNames :
          /\ NumBuckets(tally_results(results, "date"), event) = 2
          /\ NumBuckets(exceptions, event) = 3

\* e is s without the quotes at its ends: what is cut off at either end is
\* quotes only, and what is left neither starts nor ends with a quote
IsCoreOf(e, s) ==
    \E i \in 1..(Len(s) + 1) : \E j \in 0..Len(s) :
        /\ e = SubSeq(s, i, j)
        /\ \A k \in 1..(i - 1) : s[k] = QUOTE
        /\ \A k \in (j + 1)..Len(s) : s[k] = QUOTE
        /\ e # <<>> => e[1] # QUOTE /\ e[Len(e)] # QUOTE

\* C21: the event name of a record is its group 3 without its leading and
\* trailing single quotes and otherwise unchanged: records whose names differ
\* by surrounding quotes only are counted under one event name, names that
\* differ in another character under different ones.
C21_EventNameIsNameWithoutQuotes ==
    Tallied =>
        /\ \A j \in 1..Len(results) :
              \E i \in 1..Len(exceptions.table) :
                  IsCoreOf(exceptions.table[i].k, results[j].name)
        /\ \A i \in 1..Len(exceptions.table) :
              SumCounts(exceptions.table[i].v) =
                  Cardinality({j \in 1..Len(results) :
                                 IsCoreOf(exceptions.table[i].k, results[j].name)})
        /\ \A i, j \in 1..Len(exceptions.table) :
              i # j => exceptions.table[i].k # exceptions.table[j].k

\* "A", "''A'" and "'A'B" tallied: two records under "A", one under "A'B"
C21_Witness ==
    /\ Tallied
    /\ {results[j].name : j \in 1..Len(results)} = NamePool
    /\ Len(results) = 3
    /\ KeySet(exceptions.table) = { <<65>>, <<65, 39, 66>> }
    /\ SumCounts(Get(exceptions.table, <<65>>)) = 2

\* the hour and minute fields at the start of a time group: its leading
\* digits, the colon after them and all the digits after the colon
HourMinute(t) ==
    LET h == DigitRun(t, 1)
    IN  SubSeq(t, 1, h + 1 + DigitRun(t, h + 2))
StartsWithHourMinute(t) ==
    LET h == DigitRun(t, 1)
    IN  h > 0 /\ h < Len(t) /\ t[h + 1] = COLON /\ DigitRun(t, h + 2) > 0

\* the bucket key C22 gives a record
StatedKey(r) ==
    IF event_tally_granularity = "time"
    THEN r.date \o <<UNDERSCORE>> \o HourMinute(r.time)
    ELSE r.date

\* C22: with granularity 'time' every record is counted under
\* '<date>_<HH:MM>', HH:MM being the complete hour and minute fields at the
\* start of its time group, whatever follows them; with another granularity
\* under its date alone; and there is no other bucket.
C22_KeyIsDateAndHourMinute ==
    (Tallied /\ \A j \in 1..Len(results) : StartsWithHourMinute(results[j].time)) =>
        /\ \A j \in 1..Len(results) :
              Has(Get(exceptions.table, Unquoted(results[j].name)),
                  StatedKey(results[j]))
        /\ \A i \in 1..Len(exceptions.table) :
              \A b \in 1..Len(exceptions.table[i].v) :
                  \E j \in RecordsOf(exceptions.table[i].k) :
                      exceptions.table[i].v[b].k = StatedKey(results[j])

\* the records with their time groups replaced by one without hours:minutes
NoTimes(rs) == [j \in 1..Len(rs) |-> [rs[j] EXCEPT !.time = TBad]]

\* C23: with granularity 'time' a record whose time group holds no
\* hours:minutes makes _tally_results fail and return no table, whatever the
\* other records are, and nothing else makes it fail; with granularity 'date'
\* the time groups are not read: it does not fail and returns what it returns
\* for the same records with unreadable time groups.
C23_MalformedTimeFails ==
    tpc = "done" =>
        /\ exceptions = Raised <=> Malformed
        /\ (event_tally_granularity = "time"
              /\ \E j \in 1..Len(results) : results[j].time = TBad) =>
                 exceptions.kind = "raised" /\ exceptions.table = <<>>
        /\ event_tally_granularity = "date" =>
              /\ exceptions.kind # "raised"
              /\ exceptions = tally_results(NoTimes(results), "date")

\* two readable records and one without hours:minutes, tallied by time
C23_Witness ==
    /\ tpc = "done"
    /\ event_tally_granularity = "time"
    /\ Len(results) = 3
    /\ Cardinality({j \in 1..Len(results) : results[j].time = TBad}) = 1
    /\ results[1].time = T1007
    /\ exceptions = Raised

-----------------------------------------------------------------------------
(* Properties of the event statistics (checked under SpecStats) and of *)
(* process_results (checked under SpecEvents).                         *)

\* the samples of rpc-loop and what process_results reported for them
RpcSamples == event_samples["rpc-loop"]
RpcReported ==
    /\ ppc = "done"
    /\ Has(agent_info.value, "neutron-ovs-agent")
    /\ Has(Get(agent_info.value, "neutron-ovs-agent"), "rpc-loop")
RpcInfo == Get(Get(agent_info.value, "neutron-ovs-agent"), "rpc-loop")

RECURSIVE SumOver(_)
\* the sum of the durations of a set of entity ids
SumOver(ids) ==
    IF ids = {} THEN 0
    ELSE LET i == CHOOSE j \in ids : TRUE
         IN  durations[i] + SumOver(ids \ {i})
RECURSIVE SquaresOver(_)
SquaresOver(ids) ==
    IF ids = {} THEN 0
    ELSE LET i == CHOOSE j \in ids : TRUE
         IN  durations[i] * durations[i] + SquaresOver(ids \ {i})

\* value is num / den rounded to the nearest unit (either way on a tie)
IsRounded(value, num, den) ==
    2 * value * den - den <= 2 * num /\ 2 * num <= 2 * value * den + den
\* value is sqrt(v) / n rounded to the nearest unit
IsRoundedRoot(value, v, n) ==
    /\ 4 * v <= (2 * value + 1) * (2 * value + 1) * n * n
    /\ value > 0 => (2 * value - 1) * (2 * value - 1) * n * n <= 4 * v

\* C12: the statistics reported for an event (sample count, min, max, avg,
\* stdev) are those of every sample of the event, whatever the length of the
\* top list: the count is the size of the population also when only the top 5
\* are listed.
C12_StatsOfEverySample ==
    (ppc = "done" /\ RpcSamples # <<>>) =>
        /\ RpcReported
        /\ LET ids   == IdsOf(RpcSamples)
               n     == Cardinality(ids)
               stats == RpcInfo.stats
           IN  /\ stats.samples = n /\ n = Len(RpcSamples)
               /\ \A i \in ids : stats.min <= durations[i] /\ durations[i] <= stats.max
               /\ \E i \in ids : stats.min = durations[i]
               /\ \E i \in ids : stats.max = durations[i]
               /\ IsRounded(stats.avg, SumOver(ids), n)
               /\ IsRoundedRoot(stats.stdev,
                                n * SquaresOver(ids) - SumOver(ids) * SumOver(ids), n)
               /\ \A top_n \in 0..(MaxSamples + 1) :
                      Compute(RpcSamples, top_n).stats = stats

\* six samples of durations 0.01 and 0.02: five listed, six counted
C12_Witness ==
    /\ RpcReported
    /\ Len(RpcSamples) = TopN + 1
    /\ Len(RpcInfo.top) = TopN
    /\ RpcInfo.stats = [samples |-> TopN + 1, min |-> 1, max |-> 2, avg |-> 2,
                        stdev |-> 1]

Min2(a, b) == IF a < b THEN a ELSE b

\* C13: the top list of an event holds exactly min(top_n, population size)
\* samples, each a different sample of the event: with top_n = 5, all the
\* samples of an event that has fewer than 5, and exactly 5 otherwise.
C13_TopLengthIsMin ==
    (ppc = "done" /\ RpcSamples # <<>>) =>
        /\ RpcReported
        /\ Len(RpcInfo.top) = Min2(TopN, Len(RpcSamples))
        /\ Cardinality(IdsOf(RpcInfo.top)) = Len(RpcInfo.top)
        /\ \A j \in 1..Len(RpcInfo.top) :
              \E i \in 1..Len(RpcSamples) : RpcInfo.top[j] = RpcSamples[i]
        /\ \A top_n \in 0..(MaxSamples + 1) :
              Len(Compute(RpcSamples, top_n).top) = Min2(top_n, Len(RpcSamples))

\* an event with more than 5 samples lists exactly 5 of them
C13_Witness ==
    /\ RpcReported
    /\ Len(RpcSamples) > TopN
    /\ Len(RpcInfo.top) = TopN
    /\ durations[1] # durations[2] /\ durations[3] = 9

\* the collection with the samples at positions j and j + 1 exchanged
Swap(data, j) ==
    [i \in 1..Len(data) |->
        IF i = j THEN data[j + 1] ELSE IF i = j + 1 THEN data[j] ELSE data[i]]

\* C14: the top list holds the samples of longest duration: no sample left
\* out is longer than a listed one, the list is in descending order of
\* duration, samples of equal duration are ordered, and chosen at the cut-off,
\* by ascending entity id, and the list is the same for every arrival order.
C14_LongestFirstTiesById ==
    (ppc = "done" /\ RpcSamples # <<>>) =>
        /\ RpcReported
        /\ LET top == RpcInfo.top
           IN  /\ \A i \in 1..Len(RpcSamples) : \A j \in 1..Len(top) :
                      RpcSamples[i].id \notin IdsOf(top) =>
                          \/ RpcSamples[i].duration < top[j].duration
                          \/ /\ RpcSamples[i].duration = top[j].duration
                             /\ top[j].id < RpcSamples[i].id
               /\ \A j \in 1..(Len(top) - 1) :
                      \/ top[j].duration > top[j + 1].duration
                      \/ /\ top[j].duration = top[j + 1].duration
                         /\ top[j].id < top[j + 1].id
               /\ \A j \in 1..(Len(RpcSamples) - 1) :
                      get_top_n_events_sorted(Swap(RpcSamples, j), TopN) = top
               /\ get_top_n_events_sorted(Reverse(RpcSamples), TopN) = top

\* six samples that did not arrive in the order of their ids, three of 0.02
\* and three of 0.01: the one left out has the duration of the last one listed
C14_Witness ==
    /\ RpcReported
    /\ Len(RpcSamples) = TopN + 1
    /\ RpcSamples[1].id > RpcSamples[2].id
    /\ \E i \in 1..Len(RpcSamples) :
          /\ RpcSamples[i].id \notin IdsOf(RpcInfo.top)
          /\ RpcSamples[i].duration = RpcInfo.top[TopN].duration
          /\ RpcSamples[i].id > RpcInfo.top[TopN].id
    /\ RpcInfo.top[1].duration > RpcInfo.top[TopN].duration

\* the entries process_results returned under a section
EntriesOf(section) ==
    IF Has(agent_info.value, section) THEN Get(agent_info.value, section) ELSE <<>>

\* C15: an event whose sample collection is empty contributes no entry to
\* the output of process_results, neither a top list nor statistics; what is
\* returned has no section without entry and no entry without sample.
C15_NoEntryWithoutSamples ==
    ppc = "done" =>
        /\ \A k \in 1..Len(EventDefinitions) : \A e \in EventNamesOf(k) :
              event_samples[e] = <<>> =>
                  ~Has(EntriesOf(EventDefinitions[k].section), e)
        /\ \A i \in 1..Len(agent_info.value) :
              /\ agent_info.value[i].v # <<>>
              /\ \A j \in 1..Len(agent_info.value[i].v) :
                    /\ agent_info.value[i].v[j].v.top # <<>>
                    /\ agent_info.value[i].v[j].v.stats.samples >= 1

\* router-updates has no sample and no entry, next to router-spawn-events,
\* which has samples and an entry; rpc-loop has no sample and no section
C15_Witness ==
    /\ ppc = "done"
    /\ event_samples["router-updates"] = <<>>
    /\ event_samples["rpc-loop"] = <<>>
    /\ event_samples["router-spawn-events"] # <<>>
    /\ Keys(agent_info.value) = <<"neutron-l3-agent">>
    /\ Keys(EntriesOf("neutron-l3-agent")) = <<"router-spawn-events">>

\* C28 as stated: every event of a section that has at least one sample is
\* reported under its section with its top 5 and its statistics, whether or
\* not another event of the section has no sample.
C28_EveryEventWithSamplesReported ==
    ppc = "done" =>
        \A k \in 1..Len(EventDefinitions) : \A e \in EventNamesOf(k) :
            event_samples[e] # <<>> =>
                /\ Has(EntriesOf(EventDefinitions[k].section), e)
                /\ Get(EntriesOf(EventDefinitions[k].section), e)
                      = Compute(event_samples[e], TopN)

-----------------------------------------------------------------------------
(* Properties of execute()/run() and the cache (checked under Spec). *)

\* C5 as stated: a run() call that starts once a value is stored under
\* 'agent_exceptions' returns the stored value and does not aggregate,
\* whatever the stored value is.
C5_StoredValueNeverRecomputed ==
    \A p \in Procs :
        (hist[p].called /\ hist[p].stored) =>
            /\ pc[p] = "idle"
            /\ aggregations[p] = hist[p].aggs0
            /\ ret[p] = Returned(hist[p].seen)

\* C6 as stated: an execute() call made while a result is cached registers no
\* search definitions, runs no search and does not aggregate.
C6_NoSearchOnceCached ==
    \A p \in Procs :
        (hist[p].called /\ hist[p].hit) =>
            /\ loads[p] = hist[p].loads0
            /\ searches[p] = hist[p].searches0
            /\ aggregations[p] = hist[p].aggs0

\* level, project, agent, event and bucket: run() returns dicts five deep
EqResults(a, b) == DictEq(a, b, 5)

\* every count a result holds, with the path of keys that leads to it
Counts(r) ==
    UNION { UNION { UNION { UNION {
        { <<r[l].k, r[l].v[n].k, r[l].v[n].v[a].k, r[l].v[n].v[a].v[e].k,
            r[l].v[n].v[a].v[e].v[b].k, r[l].v[n].v[a].v[e].v[b].v>> :
          b \in 1..Len(r[l].v[n].v[a].v[e].v) } :
        e \in 1..Len(r[l].v[n].v[a].v) } :
        a \in 1..Len(r[l].v[n].v) } :
        n \in 1..Len(r[l].v) } :
        l \in 1..Len(r) }

\* the lines of the snapshot logged by an agent of an installed project, with
\* their level, event and date
Lines(name, agent, level, event, date) ==
    {i \in 1..Len(snapshot) :
        /\ snapshot[i].tag = <<name, agent, level>>
        /\ Unquoted(snapshot[i].name) = event
        /\ snapshot[i].date = date}

\* the aggregation of the snapshot: per level, installed project, agent, event
\* and date, the number of lines, for the combinations that have a line
SnapshotCounts ==
    { <<snapshot[i].tag[3], snapshot[i].tag[1], snapshot[i].tag[2],
        Unquoted(snapshot[i].name), snapshot[i].date,
        Cardinality(Lines(snapshot[i].tag[1], snapshot[i].tag[2],
                          snapshot[i].tag[3], Unquoted(snapshot[i].name),
                          snapshot[i].date))>> :
      i \in {j \in 1..Len(snapshot) : snapshot[j].tag[1] \in installed} }

\* C7: under every interleaving of the processes' cache reads and writes, the
\* results two processes have returned are equal, and a value present in the
\* cache is the aggregation of the snapshot.
C7_ConcurrentRunsAgree ==
    /\ \A p, q \in Procs :
          (ret[p].has /\ ret[q].has) => EqResults(ret[p].value, ret[q].value)
    /\ cache.present => Counts(cache.value) = SnapshotCounts

\* both processes missed, both aggregated their own differently ordered search
\* results, and both wrote
C7_Witness ==
    /\ sets = 2
    /\ aggregations = [p \in Procs |-> 1]
    /\ \A p \in Procs : ret[p].has /\ pc[p] = "idle"
    /\ ret["p1"].value # ret["p2"].value
    /\ cache.value # <<>>

\* C8 as stated: within one run the key 'agent_exceptions' is written at most
\* once, by however many run() calls of however many processes.
C8_WrittenAtMostOnce == sets <= 1


\* a call of run() that read the cache when it held no entry
ReadAbsent(p) == hist[p].called /\ ~hist[p].stored

C20_NoExpiryAndRunScoped ==
    /\ [][global_tmp_dir' = global_tmp_dir =>
            /\ cache.present => cache'.present
            /\ cache' # cache => sets' = sets + 1]_vars
    /\ [][global_tmp_dir' # global_tmp_dir => ~cache'.present]_vars
    /\ [][\A p \in Procs :
            (calls'[p] = calls[p] + 1 /\ sets = 0) =>
                ~hist'[p].stored /\ ~hist'[p].hit /\ ~ret'[p].has]_vars
    /\ [](sets = 0 => ~cache.present /\ \A p \in Procs : ~ret[p].has)

\* the second run has read the key and found it absent while the entry the
\* first run wrote is still stored at the first run's location
C20_Witness ==
    /\ global_tmp_dir = ScratchDirs[2]
    /\ store[CachePath(ScratchDirs[1])].present
    /\ store[CachePath(ScratchDirs[1])].value # <<>>
    /\ \E p \in Procs : hist[p].called /\ ~hist[p].stored /\ pc[p] = "aggregate"


\* the positions of two different definitions added for the same log path
\* under the same tag
Collisions(defs) ==
    { pair \in (1..Len(defs)) \X (1..Len(defs)) :
        /\ pair[1] < pair[2]
        /\ defs[pair[1]].path = defs[pair[2]].path
        /\ defs[pair[1]].tag = defs[pair[2]].tag }

\* the kinds of the expressions whose matches were found under a tag
KindsUnder(sr, tag) ==
    { IF sr[i].tag[3] = "warning" THEN "warnings"
      ELSE IF sr[i].name \in AgentErrorNames(sr[i].tag[1]) THEN "errors"
      ELSE "exceptions" : i \in {j \in 1..Len(sr) : sr[j].tag = tag} }

\* C24 as stated: for any one log path no two definitions added by one load()
\* carry the same tag, and the matches found under a tag are those of one
\* expression.
C24_NoTwoDefsShareTag ==
    \A p \in Procs :
        loads[p] = 1 =>
            /\ Collisions(searchdefs[p]) = {}
            /\ \A i \in 1..Len(search_results[p]) :
                  Cardinality(KindsUnder(search_results[p],
                                         search_results[p][i].tag)) = 1

\* C24: definitions added by one load() for different agents or for different
\* log levels never carry the same tag; the exception expression and the
\* extra error expression of one agent are both added under
\* '<project>.<agent>.error', and the matches of the two are found together
\* under that tag; no warning is found under an error tag or the reverse.
C24_TagsCollideOnlyWithinErrorLevel ==
    \A p \in Procs :
        loads[p] = 1 =>
            LET defs == searchdefs[p]
            IN  /\ \A pair \in Collisions(defs) :
                      /\ defs[pair[1]].tag[3] = "error"
                      /\ {defs[pair[1]].kind, defs[pair[2]].kind}
                            = {"exceptions", "errors"}
                /\ \A i, j \in 1..Len(defs) :
                      defs[i].tag = defs[j].tag => defs[i].path = defs[j].path
                /\ \A i \in 1..Len(defs) :
                      /\ defs[i].tag[1] = defs[i].path[1]
                      /\ defs[i].tag[2] = defs[i].path[2]
                      /\ defs[i].tag[3] = "warning" <=> defs[i].kind = "warnings"
                /\ \A i \in 1..Len(search_results[p]) :
                      KindsUnder(search_results[p], search_results[p][i].tag)
                          \in {{"warnings"}, {"exceptions"}, {"errors"},
                               {"exceptions", "errors"}}

\* one load() added two definitions under neutron.neutron-dhcp-agent.error,
\* and the matches of both were found under that tag and tallied together
C24_Witness ==
    \E p \in Procs :
        /\ loads[p] = 1 /\ pc[p] = "idle" /\ ret[p].has
        /\ Collisions(searchdefs[p]) # {}
        /\ KindsUnder(search_results[p],
                      Tag("neutron", "neutron-dhcp-agent", "error"))
              = {"exceptions", "errors"}
        /\ Has(ret[p].value, "error")
        /\ KeySet(Get(Get(Get(ret[p].value, "error"), "neutron"),
                      "neutron-dhcp-agent")) = { <<65>>, <<66>> }


\* the counts of a summary, as counts of a result that has that level only
SummaryCounts(summary, level) ==
    IF summary.present THEN Counts(<<[k |-> level, v |-> summary.value]>>) ELSE {}
LevelCounts(level) == {c \in SnapshotCounts : c[1] = level}

\* C25: the error summary holds exactly the projects and agents with a match
\* under an error tag, each with the tally of those matches and nothing of the
\* warning matches; the warning summary likewise; a summary is absent when
\* its level has no match.
C25_SummariesByLevel ==
    \A p \in Procs :
        ret[p].has =>
            \A l \in 1..Len(LogLevels) :
                LET level   == LogLevels[l]
                    summary == SummaryOf(ret[p].value, level)
                IN  /\ SummaryCounts(summary, level) = LevelCounts(level)
                    /\ summary.present <=> LevelCounts(level) # {}
                    /\ summary.present => summary.value # <<>>

\* nova logged a warning and neutron an error: each summary has one project
C25_Witness ==
    \E p \in Procs :
        /\ ret[p].has
        /\ SummaryOf(ret[p].value, "warning").present
        /\ SummaryOf(ret[p].value, "error").present
        /\ Keys(SummaryOf(ret[p].value, "warning").value) = <<"nova">>
        /\ Keys(SummaryOf(ret[p].value, "error").value) = <<"neutron">>

\* C26: a result returned by run() has no empty entry: every level has a
\* project, every project an agent, every agent a table with an event (never
\* the None _tally_results gives for no record), every event a
\* bucket, every bucket a count of at least 1, and every project is installed.
C26_NoEmptyEntry ==
    \A p \in Procs :
        ret[p].has =>
            LET r == ret[p].value
            IN  \A l \in 1..Len(r) :
                  /\ r[l].v # <<>>
                  /\ \A n \in 1..Len(r[l].v) :
                        /\ r[l].v[n].k \in installed
                        /\ r[l].v[n].v # <<>>
                        /\ \A a \in 1..Len(r[l].v[n].v) :
                              /\ r[l].v[n].v[a].v # None
                              /\ r[l].v[n].v[a].v # <<>>
                              /\ \A e \in 1..Len(r[l].v[n].v[a].v) :
                                    /\ r[l].v[n].v[a].v[e].v # <<>>
                                    /\ \A b \in 1..Len(r[l].v[n].v[a].v[e].v) :
                                          r[l].v[n].v[a].v[e].v[b].v >= 1

\* nova is not installed and has a line in the snapshot, neutron has an error
\* only: the result returned has the error level alone
C26_Witness ==
    \E p \in Procs :
        /\ ret[p].has
        /\ installed = {"neutron"}
        /\ \E i \in 1..Len(snapshot) : snapshot[i].tag[1] = "nova"
        /\ Keys(ret[p].value) = <<"error">>

\* C27: every execute() call of one instance within a run returns the same
\* tallies, those of the snapshot: the definitions a later call adds again
\* increase no count, whether the first result was empty or not.
C27_RepeatedExecuteSameTallies ==
    /\ [](\A p \in Procs : ret[p].has => Counts(ret[p].value) = SnapshotCounts)
    /\ [][\A p \in Procs :
            (ret[p].has /\ ret'[p].has) => EqResults(ret[p].value, ret'[p].value)]_vars

\* a second call found every match twice and returned the counts of the first
C27_Witness ==
    \E p \in Procs :
        /\ calls[p] = 2 /\ loads[p] = 2 /\ pc[p] = "idle"
        /\ Len(search_results[p]) = 2 * Len(snapshot)
        /\ Len(snapshot) = MaxSnapshot
        /\ ret[p].has /\ ret[p].value # <<>>
        /\ Counts(ret[p].value) = SnapshotCounts

-----------------------------------------------------------------------------
(* Properties of the scenario runner (checked under SpecScenario). *)

\* the issues scenario k has sent to the sink
IssuesOf(k) == {i \in 1..Len(issues) : issues[i].id = k}

\* C9: in one run, a scenario the runner has evaluated has sent exactly one
\* issue if its condition is true and none if it is false, a scenario not yet
\* evaluated has sent none, however often the facts were queried again.
C9_OneIssuePerTrueScenario ==
    \A k \in 1..Len(Scenarios) :
        Cardinality(IssuesOf(k)) =
            IF k < sidx /\ Evaluate(facts, Scenarios[k].cond) THEN 1 ELSE 0

\* the run is over, the facts were queried again, a scenario with two matching
\* conclusions and a condition over several facts has fired, another has not
C9_Witness ==
    /\ sidx = Len(Scenarios) + 1
    /\ requeries = MaxRequeries
    /\ facts["f2"] = "true" /\ facts["f3"] = "true"
    /\ Cardinality(IssuesOf(5)) = 1
    /\ Cardinality(IssuesOf(3)) = 0

\* the value of a fact as a boolean
Holds(fact) == facts[fact] = "true"

\* the standard boolean value of each scenario's condition
Meaning ==
    << Holds("f1") /\ Holds("f2"),
       Holds("f2") \/ Holds("f1"),
       ~Holds("f3"),
       (Holds("f1") \/ Holds("f3")) /\ ~Holds("f2") /\ Holds("f1"),
       Holds("f3") \/ Holds("f2"),
       dpkg_l \in {V16_4_0, V17_Epoch1, V16_4_1_rc} >>

\* C10: evaluating a condition tree gives its standard boolean value; with
\* f1 true and f2 false, AND(f1, f2) never raises an issue and OR(f2, f1) has
\* raised exactly one once the runner has evaluated it.
C10_StandardBooleanMeaning ==
    /\ \A k \in 1..Len(Scenarios) :
          Evaluate(facts, Scenarios[k].cond) = Meaning[k]
    /\ (Holds("f1") /\ facts["f2"] = "false") =>
          /\ IssuesOf(1) = {}
          /\ sidx > 2 => Cardinality(IssuesOf(2)) = 1

\* AND(true, false) and OR(false, true) have both been evaluated
C10_Witness ==
    /\ facts["f1"] = "true" /\ facts["f2"] = "false"
    /\ sidx = Len(Scenarios) + 1
    /\ IssuesOf(1) = {}
    /\ Cardinality(IssuesOf(2)) = 1

\* the condition tree has a predicate on the fact
RECURSIVE Mentions(_, _)
Mentions(node, fact) ==
    CASE node.op = "leaf" -> node.fact = fact
      [] node.op \in {"not", "and", "or"} ->
            \E i \in 1..Len(node.args) : Mentions(node.args[i], fact)
      [] OTHER -> FALSE

\* the scenarios that have a predicate on the fact
Mentioning(fact) ==
    { k \in 1..Len(Scenarios) : Mentions(Scenarios[k].cond, fact) }

\* the standard boolean value of each scenario's condition when the facts
\* are as in g
MeaningIn(g) ==
    << g["f1"] = "true" /\ g["f2"] = "true",
       g["f2"] = "true" \/ g["f1"] = "true",
       ~(g["f3"] = "true"),
       (g["f1"] = "true" \/ g["f3"] = "true") /\ ~(g["f2"] = "true") /\ g["f1"] = "true",
       g["f3"] = "true" \/ g["f2"] = "true",
       dpkg_l \in {V16_4_0, V17_Epoch1, V16_4_1_rc} >>

\* the scenarios that have a predicate on the fact and whose condition holds
\* under no values of the facts that make that predicate false
Requiring(fact) ==
    { k \in Mentioning(fact) :
        \A g \in [FactNames -> {"true", "false"}] :
            g[fact] = "false" => ~MeaningIn(g)[k] }

\* C11 as stated: a predicate whose fact is unavailable evaluates to false
\* without raising, and for that reason its scenario, every scenario with a
\* predicate on that fact, does not fire; no error reaches the caller, and
\* the scenarios without such a predicate are still evaluated and reported.
C11_UnavailableFactSilencesScenario ==
    /\ ~run_error
    /\ \A fact \in FactNames :
          facts[fact] = "absent" =>
              /\ ~Evaluate(facts, Leaf(fact))
              /\ \A k \in Mentioning(fact) : IssuesOf(k) = {}
    /\ sidx = Len(Scenarios) + 1 =>
          \A k \in 1..Len(Scenarios) :
              (Meaning[k] /\ \A fact \in FactNames :
                                 k \in Mentioning(fact) => facts[fact] # "absent")
                  => Cardinality(IssuesOf(k)) = 1

\* C11 amended: a predicate whose fact is unavailable evaluates to false
\* without raising, and the condition of its scenario is decided with the
\* predicate false: a scenario that cannot hold with the predicate false
\* does not fire, a scenario that negates the predicate or has another way
\* to hold fires as its condition says; no error reaches the caller, and
\* every scenario of the run is evaluated and reports exactly when its
\* condition holds.
C11_UnavailableFactCountsAsFalse ==
    /\ ~run_error
    /\ \A fact \in FactNames :
          facts[fact] = "absent" =>
              /\ ~Evaluate(facts, Leaf(fact))
              /\ \A k \in Requiring(fact) : IssuesOf(k) = {}
              /\ \A k \in Mentioning(fact) :
                    k < sidx =>
                        Cardinality(IssuesOf(k)) = IF Meaning[k] THEN 1 ELSE 0
    /\ sidx = Len(Scenarios) + 1 =>
          \A k \in 1..Len(Scenarios) :
              Cardinality(IssuesOf(k)) = IF Meaning[k] THEN 1 ELSE 0

\* the run is over with f1 and f3 unavailable: the scenarios that cannot hold
\* without f1 sent nothing, the scenario that negates the predicate on f3 and
\* the scenario that holds by f2 alone sent their issue
C11_Witness ==
    /\ facts["f1"] = "absent" /\ facts["f2"] = "true" /\ facts["f3"] = "absent"
    /\ sidx = Len(Scenarios) + 1
    /\ ~run_error
    /\ Requiring("f1") = {1, 4} /\ Requiring("f3") = {}
    /\ 3 \in Mentioning("f3") /\ 2 \in Mentioning("f1")
    /\ IssuesOf(1) = {} /\ IssuesOf(4) = {}
    /\ Cardinality(IssuesOf(2)) = 1
    /\ Cardinality(IssuesOf(3)) = 1

\* the versions of the pool that are earlier than 2:16.4.1
BelowFixed == {V16_4_0, V17_Epoch1, V16_4_1_rc}
\* the scenario on the version of neutron-common
AptScenario == CHOOSE k \in 1..Len(Scenarios) : Scenarios[k].cond.op = "apt"

\* C19: the scenario requiring neutron-common earlier than 2:16.4.1 raises
\* exactly one bug when 2:16.4.0-0ubuntu2 is installed, and none when the
\* package is not installed or its version is not earlier (2:16.4.1-0ubuntu2).
C19_OneBugBelowFixedVersion ==
    /\ \A i \in IssuesOf(AptScenario) : issues[i].type = "bug"
    /\ Cardinality(IssuesOf(AptScenario)) =
          IF sidx > AptScenario /\ dpkg_l \in BelowFixed THEN 1 ELSE 0
    /\ VersionLess(V16_4_0, FixedVersion)
    /\ ~VersionLess(V16_4_1, FixedVersion)
    /\ (sidx > AptScenario /\ dpkg_l = V16_4_0) =>
          Cardinality(IssuesOf(AptScenario)) = 1
    /\ dpkg_l \in {NotInstalled, V16_4_1} => IssuesOf(AptScenario) = {}

\* the run is over with 2:16.4.0-0ubuntu2 installed and the bug was raised
C19_Witness ==
    /\ sidx = Len(Scenarios) + 1
    /\ dpkg_l = V16_4_0
    /\ \E i \in 1..Len(issues) :
          issues[i] = [id |-> AptScenario, type |-> "bug"]

-----------------------------------------------------------------------------
(* Properties of the failover callbacks (checked under SpecFailovers). *)

\* the load balancer id the payload of a record names: the text of its
\* load_balancer_id when that is a quoted string, None when the payload has
\* no load_balancer_id or prints None or null for it
RECURSIVE NamedLbId(_)
NamedLbId(text) ==
    IF text = <<>> THEN None
    ELSE IF text[Len(text)].k = "load_balancer_id"
         THEN IF text[Len(text)].v.quoted THEN text[Len(text)].v.text ELSE None
         ELSE NamedLbId(SubSeq(text, 1, Len(text) - 1))
LbIdOf(r) == NamedLbId(r.payload)
CarriesLbId(r) == LbIdOf(r) # None

\* the positions of the records with this date and this load balancer id
FailoverRecordsOf(rs, d, lb) ==
    { j \in 1..Len(rs) : rs[j].date = d /\ LbIdOf(rs[j]) = lb }

\* the counts _get_failovers gave, empty when the callback returned nothing
FailoverCounts ==
    IF failover_info.has THEN Get(failover_info.value, "auto") ELSE <<>>

RECURSIVE SumValues(_)
SumValues(d) == IF d = <<>> THEN 0 ELSE Head(d).v + SumValues(Tail(d))

RECURSIVE SumAllCounts(_)
SumAllCounts(f) ==
    IF f = <<>> THEN 0 ELSE SumValues(Head(f).v) + SumAllCounts(Tail(f))

\* C29 as stated: once the callback has run, every (date, load balancer id)
\* pair of the counts holds exactly the number of records with that date and
\* id, every record that carries an id is counted under its pair, a record
\* whose payload has no load balancer id is counted nowhere, and the counts
\* add up to the number of records that carry an id.
C29_FailoversCountedPerDateAndLb ==
    fpc = "done" =>
        LET f == FailoverCounts IN
        /\ \A i, j \in 1..Len(f) : f[i].k = f[j].k => i = j
        /\ \A i \in 1..Len(f) :
              /\ f[i].k \in FailoverDates
              /\ f[i].v # <<>>
              /\ \A a, b \in 1..Len(f[i].v) : f[i].v[a].k = f[i].v[b].k => a = b
              /\ \A a \in 1..Len(f[i].v) :
                    /\ f[i].v[a].k # None
                    /\ f[i].v[a].v
                          = Cardinality(FailoverRecordsOf(failover_results, f[i].k, f[i].v[a].k))
        /\ \A j \in 1..Len(failover_results) :
              CarriesLbId(failover_results[j]) =>
                  /\ Has(f, failover_results[j].date)
                  /\ Has(Get(f, failover_results[j].date), LbIdOf(failover_results[j]))
        /\ SumAllCounts(f)
              = Cardinality({ j \in 1..Len(failover_results) :
                                  CarriesLbId(failover_results[j]) })

-----------------------------------------------------------------------------
(* Properties of AgentChecks.__call__ (checked under SpecCall). *)

\* C30: the terms of all four checks are registered before the search runs,
\* the search runs exactly once, and only after it each check's
\* process_results is called, in the order of the list and with the result
\* collection that search returned; when OpenStack is not installed nothing
\* is registered, no search runs and the output stays unset.
C30_RegisterSearchOnceProcess ==
    /\ [](/\ searcher_runs <= 1
          /\ ~openstack_installed =>
                /\ registered = <<>>
                /\ searcher_runs = 0
                /\ processed = <<>>
                /\ agent_output = Unset
          /\ searcher_runs = 1 => registered = AgentCheckNames
          /\ processed # <<>> => searcher_runs = 1
          /\ \A j \in 1..Len(processed) :
                /\ j <= Len(AgentCheckNames)
                /\ processed[j].check = AgentCheckNames[j]
                /\ processed[j].results = call_results
          /\ (cpc.at = "done" /\ openstack_installed) =>
                /\ searcher_runs = 1
                /\ Len(processed) = Len(AgentCheckNames))
    /\ [][/\ searcher_runs' # searcher_runs =>
                /\ registered = AgentCheckNames
                /\ registered' = registered
                /\ processed = <<>> /\ processed' = <<>>
          /\ processed' # processed =>
                /\ searcher_runs = 1 /\ searcher_runs' = 1
                /\ call_results' = call_results
                /\ registered' = registered
          /\ registered' # registered => searcher_runs' = 0]_vars

\* a call with OpenStack installed has finished: every check was handed the
\* results of the one search and two of them contributed to the output
C30_Witness ==
    /\ cpc.at = "done"
    /\ openstack_installed
    /\ searcher_runs = 1
    /\ Len(processed) = Len(AgentCheckNames)
    /\ agent_output.set
    /\ Len(Get(agent_output.value, "agent-checks")) = 2
====
